---- MODULE Spec2Model ----
(***************************************************************************)
(* Flint: the tree-walking interpreter (resolver, environments, functions, *)
(* classes, control-flow signals) as a state machine.                      *)
(*                                                                         *)
(* The C++ call stack is explicit: `stack` holds one frame per activation  *)
(* of a C++ function that is waiting for a callee, `mode` says whether the *)
(* top activation is running, has just been returned to, or is being       *)
(* unwound by an exception (`signal`).                                     *)
(***************************************************************************)
EXTENDS Integers, Sequences, FiniteSets, TLC

(***************************************************************************)
(* Bounds of the model.                                                    *)
(***************************************************************************)
\* nesting depth of the generated control-flow statements
MaxDepth == 2
\* iterations of every generated loop
MaxIter == 2
\* number of diagnostics the scanner / the parser report for one text
MaxDiag == 1
\* cap on the number of machine steps of one run
MaxSteps == 400
\* the number of closure calls a closure program makes
MaxOps == 3
MaxWrites == 4
MaxLine == 3
MaxSource == 3
MaxTokens == 3
\* longest string literal, in characters
MaxChars == 2

(***************************************************************************)
(* Runtime values (LiteralValue): a tag and a payload.  Objects carry the  *)
(* index of the object in its heap, so equality is reference identity.     *)
(***************************************************************************)
Val(t, v) == [t |-> t, v |-> v]
Monostate == Val("monostate", 0)
Nothing == Val("nullptr", 0)
Num(n) == Val("double", n)
Bool(b) == Val("bool", IF b THEN 1 ELSE 0)

(***************************************************************************)
(* AST nodes, with the field names of Stmt.h and ExpressionNode.h.         *)
(***************************************************************************)
Null == [kind |-> "Null"]
Literal(value) == [kind |-> "Literal", value |-> value]
Grouping(e) == [kind |-> "Grouping", expression |-> e]
Variable(name) == [kind |-> "Variable", name |-> name]
Assignment(name, value) == [kind |-> "Assignment", name |-> name, value |-> value]
Binary(left, op, right) == [kind |-> "Binary", left |-> left, op |-> op, right |-> right]
Call(callee, arguments) == [kind |-> "Call", callee |-> callee, arguments |-> arguments]
Get(object, name) == [kind |-> "Get", object |-> object, name |-> name]
Set(object, name, value) == [kind |-> "Set", object |-> object, name |-> name, value |-> value]
This == [kind |-> "This", keyword |-> "this"]
SuperExpr(method) == [kind |-> "Super", keyword |-> "super", method |-> method]
FunctionStmt(name, params, body, isGetter) ==
    [kind |-> "FunctionStmt", name |-> name, params |-> params,
     body |-> body, isGetter |-> isGetter]
Lambda(params, body) ==
    [kind |-> "Lambda", function |-> FunctionStmt("", params, body, FALSE)]
ExpressionStmt(e) == [kind |-> "ExpressionStmt", expression |-> e]
LetStmt(declarations) == [kind |-> "LetStmt", declarations |-> declarations]
Decl(name, initializer) == [name |-> name, initializer |-> initializer]
BlockStmt(stmts) == [kind |-> "BlockStmt", statements |-> stmts]
IfStmt(c, t, e) == [kind |-> "IfStmt", condition |-> c, thenBranch |-> t, elseBranch |-> e]
WhileStmt(c, s) == [kind |-> "WhileStmt", condition |-> c, statement |-> s]
ReturnStmt(val) == [kind |-> "ReturnStmt", val |-> val]
BreakStmt == [kind |-> "BreakStmt"]
ContinueStmt == [kind |-> "ContinueStmt"]
TryCatchContinueStmt(body) == [kind |-> "TryCatchContinueStmt", body |-> body]
ClassStmt(name, superClass, instanceMethods, classMethods) ==
    [kind |-> "ClassStmt", name |-> name, superClass |-> superClass,
     instanceMethods |-> instanceMethods, classMethods |-> classMethods]

\* The children of a node, in a fixed order; a node is identified (ExprPtr,
\* shared_ptr<Statement>) by the path of child indices that leads to it.
Kids(n) ==
    CASE n.kind = "Program" -> n.body
      [] n.kind = "Grouping" -> <<n.expression>>
      [] n.kind = "Assignment" -> <<n.value>>
      [] n.kind = "Binary" -> <<n.left, n.right>>
      [] n.kind = "Call" -> <<n.callee>> \o n.arguments
      [] n.kind = "Get" -> <<n.object>>
      [] n.kind = "Set" -> <<n.object, n.value>>
      [] n.kind = "Lambda" -> <<n.function>>
      [] n.kind = "FunctionStmt" -> n.body
      [] n.kind = "ExpressionStmt" -> <<n.expression>>
      [] n.kind = "LetStmt" ->
            [i \in 1..Len(n.declarations) |-> n.declarations[i].initializer]
      [] n.kind = "BlockStmt" -> n.statements
      [] n.kind = "IfStmt" -> <<n.condition, n.thenBranch, n.elseBranch>>
      [] n.kind = "WhileStmt" -> <<n.condition, n.statement>>
      [] n.kind = "ReturnStmt" -> <<n.val>>
      [] n.kind = "TryCatchContinueStmt" -> <<n.body>>
      [] n.kind = "ClassStmt" ->
            <<n.superClass>> \o n.classMethods \o n.instanceMethods
      [] OTHER -> <<>>

RECURSIVE NodeAt(_, _)
NodeAt(n, path) ==
    IF path = <<>> THEN n ELSE NodeAt(Kids(n)[Head(path)], Tail(path))

(***************************************************************************)
(* Parser::forStatement: the desugaring of                                 *)
(*     for (initializer; condition; increment) body                        *)
(* A missing clause is Null.                                               *)
(***************************************************************************)
forStatement(initializer, condition, increment, body) ==
    LET b1 == IF increment.kind # "Null"
              THEN BlockStmt(<<TryCatchContinueStmt(body), ExpressionStmt(increment)>>)
              ELSE TryCatchContinueStmt(body)
        c1 == IF condition.kind = "Null" THEN Literal(Bool(TRUE)) ELSE condition
        w  == WhileStmt(c1, b1)
    IN  IF initializer.kind # "Null" THEN BlockStmt(<<initializer, w>>) ELSE w

(***************************************************************************)
(* Input programs.  A control-flow statement is generated from a shape: a  *)
(* sequence of wrappers (block, while loop, for loop, call of a lambda)    *)
(* around one atom.  Every wrapper puts a print after the wrapped          *)
(* statement, so that a statement that wrongly keeps executing is seen.    *)
(***************************************************************************)
Atoms == {"Break", "Continue", "ReturnV", "Return0", "Raise", "Print"}
Wrappers == {"Block", "Loop", "For", "Invoke"}
TailAtoms == {"Break", "Continue", "Raise", "Print"}

PrintStmt(e) == ExpressionStmt(Call(Variable("print"), <<e>>))
Incr(name) == Assignment(name, Binary(Variable(name), "+", Literal(Num(1))))
Below(name) == Binary(Variable(name), "<", Literal(Num(MaxIter)))
LetI == LetStmt(<<Decl("i", Literal(Num(0)))>>)

AtomStmt(a) ==
    CASE a = "Break" -> BreakStmt
      [] a = "Continue" -> ContinueStmt
      [] a = "ReturnV" -> ReturnStmt(Literal(Num(7)))
      [] a = "Return0" -> ReturnStmt(Null)
      [] a = "Raise" -> ExpressionStmt(Variable("undef"))
      [] OTHER -> PrintStmt(Literal(Num(5)))

Wrap(w, s) ==
    CASE w = "Block" -> BlockStmt(<<s, PrintStmt(Literal(Num(1)))>>)
      [] w = "Loop" ->
            BlockStmt(<<LetI,
                WhileStmt(Below("i"),
                    BlockStmt(<<ExpressionStmt(Incr("i")), s,
                                PrintStmt(Literal(Num(2)))>>))>>)
      [] w = "For" ->
            forStatement(LetI, Below("i"), Incr("i"),
                BlockStmt(<<s, PrintStmt(Literal(Num(4)))>>))
      [] OTHER ->
            PrintStmt(Call(Grouping(Lambda(<<>>,
                <<s, PrintStmt(Literal(Num(3)))>>)), <<>>))

RECURSIVE FlowStmt(_)
FlowStmt(shape) ==
    IF Len(shape) = 1 THEN AtomStmt(shape[1])
    ELSE Wrap(Head(shape), FlowStmt(Tail(shape)))

Shapes ==
    UNION {{w \o <<a>> : w \in [1..k -> Wrappers], a \in Atoms} : k \in 0..MaxDepth}

\* statement; tail atom; print
FlowProgram(shape, tail) ==
    <<FlowStmt(shape), AtomStmt(tail), PrintStmt(Literal(Num(9)))>>

FlowPrograms == {FlowProgram(shape, tail) : shape \in Shapes, tail \in TailAtoms}

(***************************************************************************)
(* Scope programs: a function, lambda or method m declared next to a local *)
(* x at a place (top level, block, function body), whose body uses a name, *)
(* and which is then invoked from that place.                              *)
(***************************************************************************)
Places == {"global", "block", "function"}
MemberKinds == {"function", "lambda", "instance", "static", "getter"}
Refs == {"this", "x", "p", "set"}

RefExpr(ref) ==
    CASE ref = "this" -> This
      [] ref = "x" -> Variable("x")
      [] ref = "p" -> Variable("p")
      [] OTHER -> Assignment("x", Literal(Num(7)))

MemberBody(ref) == <<PrintStmt(RefExpr(ref))>>
Method(ref) == FunctionStmt("m", <<"p">>, MemberBody(ref), FALSE)
Super(hasSuper) == IF hasSuper THEN Variable("A") ELSE Null

MemberDecl(kind, hasSuper, ref) ==
    CASE kind = "function" -> Method(ref)
      [] kind = "lambda" -> LetStmt(<<Decl("m", Lambda(<<"p">>, MemberBody(ref)))>>)
      [] kind = "instance" -> ClassStmt("B", Super(hasSuper), <<Method(ref)>>, <<>>)
      [] kind = "static" -> ClassStmt("B", Super(hasSuper), <<>>, <<Method(ref)>>)
      [] OTHER -> ClassStmt("B", Super(hasSuper),
                     <<FunctionStmt("m", <<>>, MemberBody(ref), TRUE)>>, <<>>)

MemberUse(kind) ==
    CASE kind \in {"function", "lambda"} -> Call(Variable("m"), <<Literal(Num(3))>>)
      [] kind = "instance" ->
            Call(Get(Call(Variable("B"), <<>>), "m"), <<Literal(Num(3))>>)
      [] kind = "static" -> Call(Get(Variable("B"), "m"), <<Literal(Num(3))>>)
      [] OTHER -> Get(Call(Variable("B"), <<>>), "m")

ScopeProgram(place, kind, hasSuper, ref) ==
    LET inner == <<LetStmt(<<Decl("x", Literal(Num(1)))>>),
                   MemberDecl(kind, hasSuper, ref),
                   ExpressionStmt(MemberUse(kind)),
                   PrintStmt(Variable("x"))>>
        prefix == <<LetStmt(<<Decl("x", Literal(Num(0)))>>),
                    ClassStmt("A", Null, <<>>, <<>>)>>
    IN  CASE place = "global" -> prefix \o inner
          [] place = "block" -> prefix \o <<BlockStmt(inner)>>
          [] OTHER -> prefix \o <<FunctionStmt("f", <<>>, inner, FALSE),
                                  ExpressionStmt(Call(Variable("f"), <<>>))>>

ScopePrograms ==
    {ScopeProgram(place, kind, hasSuper, ref) :
        place \in Places, kind \in MemberKinds, hasSuper \in BOOLEAN, ref \in Refs}

(***************************************************************************)
(* Property programs: classes G, A < G, B < A; p is a method (or getter)   *)
(* of the classes in defs; an instance of B may get a field p from the     *)
(* initializer or from an assignment; then p is read.                      *)
(***************************************************************************)
Chain == <<"B", "A", "G">>
FieldKinds == {"none", "init", "set"}

PropMethods(c, defs, field, getter) ==
    (IF c \in defs THEN <<FunctionStmt("p", <<>>, <<ReturnStmt(This)>>, getter)>>
     ELSE <<>>)
    \o (IF c = "G" /\ field = "init"
        THEN <<FunctionStmt("init", <<>>,
                 <<ExpressionStmt(Set(This, "p", Literal(Num(5))))>>, FALSE)>>
        ELSE <<>>)

PropProgram(defs, field, getter) ==
    <<ClassStmt("G", Null, PropMethods("G", defs, field, getter), <<>>),
      ClassStmt("A", Variable("G"), PropMethods("A", defs, field, getter), <<>>),
      ClassStmt("B", Variable("A"), PropMethods("B", defs, field, getter), <<>>),
      LetStmt(<<Decl("o", Call(Variable("B"), <<>>))>>)>>
    \o (IF field = "set"
        THEN <<ExpressionStmt(Set(Variable("o"), "p", Literal(Num(5))))>>
        ELSE <<>>)
    \o <<PrintStmt(Get(Variable("o"), "p"))>>

PropPrograms ==
    {PropProgram(defs, field, getter) :
        defs \in SUBSET {"G", "A", "B"}, field \in FieldKinds, getter \in BOOLEAN}

(***************************************************************************)
(* Closure programs: make() returns a box holding two closures over its    *)
(* local c; two boxes are made, and then a sequence of operations calls    *)
(* their closures.                                                         *)
(***************************************************************************)
Boxes == {"b1", "b2"}
Ops == {<<b, m>> : b \in Boxes, m \in {"inc", "get"}}

Make ==
    FunctionStmt("make", <<>>,
        <<LetStmt(<<Decl("c", Literal(Num(0)))>>),
          LetStmt(<<Decl("box", Call(Variable("Box"), <<>>))>>),
          ExpressionStmt(Set(Variable("box"), "inc",
              Lambda(<<>>, <<ExpressionStmt(Incr("c")), ReturnStmt(Variable("c"))>>))),
          ExpressionStmt(Set(Variable("box"), "get",
              Lambda(<<>>, <<IfStmt(Binary(Variable("c"), "<", Literal(Num(1))),
                                    ReturnStmt(Literal(Num(0))), Null),
                             ReturnStmt(Variable("c"))>>))),
          ReturnStmt(Variable("box"))>>,
        FALSE)

OpStmt(op) == PrintStmt(Call(Get(Variable(op[1]), op[2]), <<>>))

ClosureProgram(ops) ==
    <<ClassStmt("Box", Null, <<>>, <<>>), Make,
      LetStmt(<<Decl("b1", Call(Variable("make"), <<>>))>>),
      LetStmt(<<Decl("b2", Call(Variable("make"), <<>>))>>)>>
    \o [k \in 1..Len(ops) |-> OpStmt(ops[k])]

ClosurePrograms == {ClosureProgram(ops) : ops \in [1..MaxOps -> Ops]}

(***************************************************************************)
(* Super programs: A defines hi, B < A overrides it and calls super.hi,    *)
(* C < B inherits it; hi is called on an instance of B or of C.            *)
(***************************************************************************)
SuperProgram(dyn) ==
    <<ClassStmt("A", Null,
          <<FunctionStmt("hi", <<>>, <<ReturnStmt(Literal(Num(1)))>>, FALSE)>>, <<>>),
      ClassStmt("B", Variable("A"),
          <<FunctionStmt("hi", <<>>,
              <<ReturnStmt(Binary(Call(SuperExpr("hi"), <<>>), "+",
                                  Literal(Num(2))))>>, FALSE)>>, <<>>),
      ClassStmt("C", Variable("B"), <<>>, <<>>),
      PrintStmt(Call(Get(Call(Variable(dyn), <<>>), "hi"), <<>>))>>

SuperPrograms == {SuperProgram(dyn) : dyn \in {"B", "C"}}

(***************************************************************************)
(* Initializer programs: G declares init (with or without a parameter; its *)
(* body is empty, sets a field, or holds a return), B < G inherits it; an  *)
(* instance of G or B is made and init is then called on it directly.      *)
(***************************************************************************)
InitBodies == {"empty", "set", "return", "value"}

InitBody(body, param) ==
    CASE body = "empty" -> <<>>
      [] body = "set" ->
            <<ExpressionStmt(Set(This, "p",
                  IF param THEN Variable("p") ELSE Literal(Num(5))))>>
      [] body = "value" -> <<ReturnStmt(Literal(Num(7)))>>
      [] OTHER -> <<ReturnStmt(Null)>>

InitProgram(cls, body, param) ==
    LET params == IF param THEN <<"p">> ELSE <<>>
        args == IF param THEN <<Literal(Num(3))>> ELSE <<>>
    IN  <<ClassStmt("G", Null,
              <<FunctionStmt("init", params, InitBody(body, param), FALSE)>>, <<>>),
          ClassStmt("B", Variable("G"), <<>>, <<>>),
          LetStmt(<<Decl("o", Call(Variable(cls), args))>>),
          PrintStmt(Call(Get(Variable("o"), "init"), args))>>

InitPrograms ==
    {InitProgram(cls, body, param) :
        cls \in {"G", "B"}, body \in InitBodies, param \in BOOLEAN}

(***************************************************************************)
(* Let programs: a let statement at top level, in a block or in a function *)
(* body, after a global a; its initialisers read the name they initialise, *)
(* a later name or an earlier name of the statement, or no name of it.     *)
(***************************************************************************)
LetForms == {"self", "grouped", "later", "earlier", "shadow", "other"}

LetForm(form) ==
    CASE form = "self" -> LetStmt(<<Decl("a", Variable("a"))>>)
      [] form = "grouped" ->
            LetStmt(<<Decl("b", Literal(Num(1))),
                      Decl("a", Binary(Grouping(Variable("a")), "+", Variable("b")))>>)
      [] form = "later" ->
            LetStmt(<<Decl("b", Variable("a")), Decl("a", Literal(Num(1)))>>)
      [] form = "earlier" ->
            LetStmt(<<Decl("a", Literal(Num(1))), Decl("b", Variable("a"))>>)
      [] form = "shadow" ->
            BlockStmt(<<LetStmt(<<Decl("a", Variable("a"))>>),
                        PrintStmt(Variable("a"))>>)
      [] OTHER -> LetStmt(<<Decl("b", Variable("a"))>>)

LetProgram(place, form) ==
    LET inner == <<LetForm(form), PrintStmt(Literal(Num(2)))>>
        prefix == <<LetStmt(<<Decl("a", Literal(Num(0)))>>)>>
    IN  CASE place = "global" -> prefix \o inner
          [] place = "block" -> prefix \o <<BlockStmt(inner)>>
          [] OTHER -> prefix \o <<FunctionStmt("f", <<>>, inner, FALSE),
                                  ExpressionStmt(Call(Variable("f"), <<>>))>>

LetPrograms == {LetProgram(place, form) : place \in Places, form \in LetForms}

Programs ==
    FlowPrograms \cup ScopePrograms \cup PropPrograms \cup ClosurePrograms
        \cup SuperPrograms \cup InitPrograms \cup LetPrograms

(***************************************************************************)
(* Maps with a finite domain of names (std::unordered_map).                *)
(***************************************************************************)
EmptyMap == <<>>
Put(m, k, v) == [x \in (DOMAIN m) \cup {k} |-> IF x = k THEN v ELSE m[x]]
Has(m, k) == k \in DOMAIN m

(***************************************************************************)
(* Resolver.  r is the Resolver object together with the interpreter's     *)
(* locals table and the number of diagnostics reported through             *)
(* Flint::error.                                                           *)
(***************************************************************************)
ResolverInit ==
    [scopes |-> <<>>, locals |-> EmptyMap, errors |-> 0, diags |-> <<>>,
     currentFunction |-> "NONE", currentClass |-> "NONE"]

\* Flint::error(token, message) called by the Resolver on the node at path;
\* diags keeps what was reported of return statements and of variables
flintError(r, path, message) ==
    [r EXCEPT !.errors = @ + 1,
              !.diags = Append(@, [path |-> path, message |-> message])]

beginScope(r) == [r EXCEPT !.scopes = Append(@, EmptyMap)]
endScope(r) == [r EXCEPT !.scopes = SubSeq(@, 1, Len(@) - 1)]

\* faulty variant: the name is put into the scope as already initialised
declare_AsDefined(r, name) ==
    IF r.scopes = <<>> THEN r
    ELSE LET n == Len(r.scopes)
             dup == Has(r.scopes[n], name)
         IN  [r EXCEPT !.errors = IF dup THEN @ + 1 ELSE @,
                       !.scopes[n] = Put(@, name, TRUE)]

declare(r, name) ==
    IF r.scopes = <<>> THEN r
    ELSE LET n == Len(r.scopes)
             dup == Has(r.scopes[n], name)
         IN  [r EXCEPT !.errors = IF dup THEN @ + 1 ELSE @,
                       !.scopes[n] = Put(@, name, FALSE)]

define(r, name) ==
    IF r.scopes = <<>> THEN r
    ELSE [r EXCEPT !.scopes[Len(r.scopes)] = Put(@, name, TRUE)]

resolveLocal(r, path, name) ==
    LET hits == {i \in 1..Len(r.scopes) : Has(r.scopes[i], name)}
    IN  IF hits = {} THEN r
        ELSE LET i == CHOOSE j \in hits : \A k \in hits : k <= j
             IN  [r EXCEPT !.locals = Put(@, path, Len(r.scopes) - i)]

RECURSIVE ResolveStmt(_, _, _), ResolveExpr(_, _, _), ResolveList(_, _, _, _),
          resolveFunction(_, _, _, _), ResolveParams(_, _, _),
          ResolveLetDeclare(_, _, _), ResolveLetInit(_, _, _, _),
          ResolveMethods(_, _, _, _, _)

\* resolve(std::vector<Statement>): kids k.. of the node at path
ResolveList(nodes, path, k, r) ==
    IF k > Len(nodes) THEN r
    ELSE LET r1 == ResolveStmt(nodes[k], path \o <<k>>, r)
         IN  \* the test makes TLC compute r1 before it descends further
             IF r1.errors >= 0 THEN ResolveList(nodes, path, k + 1, r1) ELSE r1

ResolveParams(params, k, r) ==
    IF k > Len(params) THEN r
    ELSE ResolveParams(params, k + 1, define(declare(r, params[k]), params[k]))

resolveFunction(stmt, path, type, r) ==
    LET r0 == IF stmt.isGetter /\ type # "METHOD"
              THEN [r EXCEPT !.errors = @ + 1] ELSE r
        enclosing == r0.currentFunction
        r1 == beginScope([r0 EXCEPT !.currentFunction = type])
        r2 == ResolveParams(stmt.params, 1, r1)
        r3 == ResolveList(stmt.body, path, 1, r2)
    IN  [endScope(r3) EXCEPT !.currentFunction = enclosing]

ResolveLetDeclare(decls, k, r) ==
    IF k > Len(decls) THEN r
    ELSE ResolveLetDeclare(decls, k + 1, declare(r, decls[k].name))

ResolveLetInit(decls, path, k, r) ==
    IF k > Len(decls) THEN r
    ELSE LET r1 == IF decls[k].initializer.kind # "Null"
                   THEN ResolveExpr(decls[k].initializer, path \o <<k>>, r)
                   ELSE r
         IN  ResolveLetInit(decls, path, k + 1, define(r1, decls[k].name))

\* methods[k..], whose paths are path \o <<offset + k>>
ResolveMethods(methods, path, offset, k, r) ==
    IF k > Len(methods) THEN r
    ELSE LET type == IF methods[k].name = "init" THEN "INITIALIZER" ELSE "METHOD"
         IN  ResolveMethods(methods, path, offset, k + 1,
                 resolveFunction(methods[k], path \o <<offset + k>>, type, r))

ResolveStmt(n, path, r) ==
    CASE n.kind = "BlockStmt" ->
            endScope(ResolveList(n.statements, path, 1, beginScope(r)))
      [] n.kind = "LetStmt" ->
            ResolveLetInit(n.declarations, path, 1,
                           ResolveLetDeclare(n.declarations, 1, r))
      [] n.kind = "FunctionStmt" ->
            resolveFunction(n, path, "FUNCTION",
                IF n.name # "" THEN define(declare(r, n.name), n.name) ELSE r)
      [] n.kind = "ExpressionStmt" -> ResolveExpr(n.expression, path \o <<1>>, r)
      [] n.kind = "IfStmt" ->
            LET r1 == ResolveExpr(n.condition, path \o <<1>>, r)
                r2 == ResolveStmt(n.thenBranch, path \o <<2>>, r1)
            IN  IF n.elseBranch.kind # "Null"
                THEN ResolveStmt(n.elseBranch, path \o <<3>>, r2) ELSE r2
      [] n.kind = "TryCatchContinueStmt" -> ResolveStmt(n.body, path \o <<1>>, r)
      [] n.kind = "ReturnStmt" ->
            LET r0 == IF r.currentFunction = "NONE"
                      THEN flintError(r, path, "Can't return from outside a function.")
                      ELSE r
                r1 == IF r0.currentFunction = "INITIALIZER"
                      THEN flintError(r0, path, "Can't return from an initializer.")
                      ELSE r0
            IN  IF n.val.kind # "Null"
                THEN ResolveExpr(n.val, path \o <<1>>, r1) ELSE r1
      [] n.kind = "WhileStmt" ->
            ResolveStmt(n.statement, path \o <<2>>,
                        ResolveExpr(n.condition, path \o <<1>>, r))
      [] n.kind = "ClassStmt" ->
            LET enclosing == r.currentClass
                r1 == define(declare([r EXCEPT !.currentClass = "CLASS"], n.name),
                             n.name)
                r2 == beginScope(r1)
                r3 == [r2 EXCEPT !.scopes[Len(r2.scopes)] = Put(@, "this", TRUE)]
                r4 == ResolveMethods(n.classMethods, path, 1, 1, r3)
                r5 == ResolveMethods(n.instanceMethods, path,
                                     1 + Len(n.classMethods), 1, r4)
            IN  [endScope(r5) EXCEPT !.currentClass = enclosing]
      [] OTHER -> r    \* BreakStmt, ContinueStmt: nothing

\* operator()(const Super&, ExprPtr): the diagnostic outside a subclass, then
\* the depth of `super` as for a local
ResolveSuper(n, path, r) ==
    resolveLocal([r EXCEPT !.errors =
                      IF r.currentClass # "SUBCLASS" THEN @ + 1 ELSE @],
                 path, n.keyword)

ResolveExpr(n, path, r) ==
    CASE n.kind = "Variable" ->
            LET k == Len(r.scopes)
                bad == k > 0 /\ Has(r.scopes[k], n.name) /\ ~r.scopes[k][n.name]
            IN  resolveLocal(IF bad
                             THEN flintError(r, path,
                                      "Cannot read local variable in its own initializer.")
                             ELSE r,
                             path, n.name)
      [] n.kind = "Assignment" ->
            resolveLocal(ResolveExpr(n.value, path \o <<1>>, r), path, n.name)
      [] n.kind = "This" ->
            resolveLocal([r EXCEPT !.errors =
                              IF r.currentClass = "NONE" THEN @ + 1 ELSE @],
                         path, n.keyword)
      [] n.kind = "Super" -> ResolveSuper(n, path, r)
      [] n.kind = "Binary" ->
            ResolveExpr(n.right, path \o <<2>>,
                        ResolveExpr(n.left, path \o <<1>>, r))
      [] n.kind = "Call" ->
            LET RECURSIVE Args(_, _)
                Args(k, r1) ==
                    IF k > Len(n.arguments) THEN r1
                    ELSE Args(k + 1, ResolveExpr(n.arguments[k],
                                                 path \o <<1 + k>>, r1))
            IN  Args(1, ResolveExpr(n.callee, path \o <<1>>, r))
      [] n.kind = "Grouping" -> ResolveExpr(n.expression, path \o <<1>>, r)
      [] n.kind = "Lambda" -> resolveFunction(n.function, path \o <<1>>, "LAMBDA", r)
      [] n.kind = "Get" -> ResolveExpr(n.object, path \o <<1>>, r)
      [] n.kind = "Set" ->
            ResolveExpr(n.object, path \o <<1>>,
                        ResolveExpr(n.value, path \o <<2>>, r))
      [] OTHER -> r    \* Literal

\* Resolver::resolve(statements) on a fresh Resolver
Resolve(stmts) == ResolveList(stmts, <<>>, 1, ResolverInit)

(***************************************************************************)
(* State.                                                                  *)
(***************************************************************************)
VARIABLES
    statements,      \* the statement list Parser::parse returned for the text
    source,          \* diagnostics the scanner and the parser report for it
    pc,              \* position in Flint::run
    hadError,        \* Flint::hadError
    hadRuntimeError, \* Flint::hadRuntimeError
    locals,          \* Interpreter::locals: expression -> depth
    envs,            \* heap of Environment objects; an Environment is its index
    funcs,           \* heap of FlintFunction objects
    classes,         \* heap of FlintClass objects
    instances,       \* heap of FlintInstance objects
    environment,     \* Interpreter::environment
    isInsideLoop,    \* Interpreter::isInsideLoop
    stack,           \* C++ activations, innermost last
    mode,            \* "run", "ret" (a callee returned `result`), "throw"
    result,          \* value returned by the last callee / carried by Return
    signal,          \* the exception in flight
    trace,           \* history of observable events
    steps,           \* number of machine steps taken
    chunk,           \* the bytecode Chunk: code, lines, constants
    vm,              \* the VM: ip, stack, and what run() returned and printed
    written,         \* history: the line passed for each byte of chunk.code
    emitted,         \* history: the writeChunk and writeConstant calls
    ran,             \* history: the instructions run() fetched
    scanner,         \* the Scanner: source, start, current, line, tokens
    reported,        \* the diagnostics the scanner passed to Flint::error
    scanned,         \* history: the scanToken calls
    parser,          \* the Parser: tokens, current, the statements parsed
    parseErrors,     \* the diagnostics the parser passed to Flint::error
    parseLog,        \* history: what the parser did
    evaluator        \* an Evaluator at work on one expression

flintVars == <<statements, source, pc, hadError, hadRuntimeError, locals, envs,
               funcs, classes, instances, environment, isInsideLoop, stack, mode,
               result, signal, trace, steps>>
bytecodeVars == <<chunk, vm, written, emitted, ran>>
scannerVars == <<scanner, reported, scanned>>
parserVars == <<parser, parseErrors, parseLog>>
evaluatorVars == <<evaluator>>
vars == <<flintVars, bytecodeVars, scannerVars, parserVars, evaluatorVars>>

(***************************************************************************)
(* Bytecode VM: values (double).  A double is a sign s, and a magnitude    *)
(* n/d: d > 0 is a finite number, 1/0 an infinity, 0/0 a NaN.  The         *)
(* programs within the bounds compute only numbers a double holds exactly. *)
(***************************************************************************)
Double(s, n, d) == [s |-> s, n |-> n, d |-> d]
IsNaN(x) == x.n = 0 /\ x.d = 0
IsInf(x) == x.n > 0 /\ x.d = 0
IsZero(x) == x.n = 0 /\ x.d > 0

RECURSIVE GCD(_, _)
GCD(a, b) == IF b = 0 THEN a ELSE GCD(b, a % b)

Norm(s, n, d) ==
    IF d = 0 THEN (IF n = 0 THEN Double(1, 0, 0) ELSE Double(s, 1, 0))
    ELSE IF n = 0 THEN Double(s, 0, 1)
    ELSE Double(s, n \div GCD(n, d), d \div GCD(n, d))

\* unary minus
negate(x) == IF IsNaN(x) THEN x ELSE [x EXCEPT !.s = 0 - @]

\* std::plus<>
plus(a, b) ==
    IF IsNaN(a) \/ IsNaN(b) THEN Double(1, 0, 0)
    ELSE IF IsInf(a) /\ IsInf(b) THEN (IF a.s = b.s THEN a ELSE Double(1, 0, 0))
    ELSE IF IsInf(a) THEN a
    ELSE IF IsInf(b) THEN b
    ELSE LET num == a.s * a.n * b.d + b.s * b.n * a.d
         IN  IF num = 0
             THEN Double(IF a.s < 0 /\ b.s < 0 THEN 0 - 1 ELSE 1, 0, 1)
             ELSE Norm(IF num < 0 THEN 0 - 1 ELSE 1,
                       IF num < 0 THEN 0 - num ELSE num, a.d * b.d)

\* std::minus<>
minus(a, b) == plus(a, negate(b))

\* std::multiplies<>
multiplies(a, b) == Norm(a.s * b.s, a.n * b.n, a.d * b.d)

\* std::divides<>: a zero divisor gives an infinity or a NaN
divides(a, b) == Norm(a.s * b.s, a.n * b.d, a.d * b.n)

(***************************************************************************)
(* Bytecode VM: Chunk.  An offset is counted from 0 as in the code; the    *)
(* capacities of the arrays and their growth are left out.                 *)
(***************************************************************************)
OpCode == [OP_CONSTANT |-> 0, OP_CONSTANT_LONG |-> 1, OP_RETURN |-> 2]

\* the enumerators run() and the disassembler name besides
ArithOpCode ==
    [OP_NEGATE |-> 3, OP_ADD |-> 4, OP_SUBTRACT |-> 5, OP_MULTIPLY |-> 6,
     OP_DIVIDE |-> 7]

\* Chunk::Chunk()
EmptyChunk == [code |-> <<>>, lines |-> <<>>, constants |-> <<>>]

\* uint8_t(x), x & 0xFF
Byte(x) == x % 256

\* x << n on int: the low 32 bits of the shifted value
ShiftLeft(x, n) == IF n = 0 THEN x ELSE (x % 2^(32 - n)) * 2^n

\* Chunk::writeChunk
writeChunk(c, byte, line) ==
    [c EXCEPT !.code = Append(@, Byte(byte)),
              !.lines = IF Len(c.lines) <= 0 \/ c.lines[Len(c.lines)].line # line
                        THEN Append(@, [line |-> line, offset |-> Len(c.code)])
                        ELSE @]

\* Chunk::addConstant: [chunk, index]
addConstant(c, val) ==
    [chunk |-> [c EXCEPT !.constants = Append(@, val)],
     index |-> (Len(c.constants) + 1) - 1]

\* Chunk::writeConstant
writeConstant(c, val, line) ==
    LET a == addConstant(c, val)
        constantIndex == a.index
    IN  IF constantIndex < 256
        THEN writeChunk(writeChunk(a.chunk, OpCode.OP_CONSTANT, line),
                        Byte(constantIndex), line)
        ELSE writeChunk(
                 writeChunk(
                     writeChunk(
                         writeChunk(a.chunk, OpCode.OP_CONSTANT_LONG, line),
                         Byte(ShiftLeft(constantIndex, 0)), line),
                     Byte(ShiftLeft(constantIndex, 8)), line),
                 Byte(ShiftLeft(constantIndex, 16)), line)

\* faulty variant: the table is scanned from its first entry
getLine_FromFirst(c, instruction) ==
    LET hits == {i \in 1..Len(c.lines) : instruction >= c.lines[i].offset}
    IN  IF hits = {} THEN 0 - 1
        ELSE c.lines[CHOOSE i \in hits : \A j \in hits : i <= j].line

\* faulty variant: the test of the offset is reversed
getLine_ReversedTest(c, instruction) ==
    LET hits == {i \in 1..Len(c.lines) : instruction <= c.lines[i].offset}
    IN  IF hits = {} THEN 0 - 1
        ELSE c.lines[CHOOSE i \in hits : \A j \in hits : i >= j].line

\* Chunk::getLine: the entries are scanned from the last one down
getLine(c, instruction) ==
    LET hits == {i \in 1..Len(c.lines) : instruction >= c.lines[i].offset}
    IN  IF hits = {} THEN 0 - 1
        ELSE c.lines[CHOOSE i \in hits : \A j \in hits : i >= j].line

\* Disassembler::longConstantInstruction: the index it decodes at offset
longConstantInstruction(c, offset) ==
    c.code[offset + 2] + c.code[offset + 3] * 2^8 + c.code[offset + 4] * 2^16

\* the chunk after n calls of addConstant(0.0)
Pool(n) == [EmptyChunk EXCEPT !.constants = [i \in 1..n |-> Double(1, 0, 1)]]

\* VM before run()
VMIdle == [state |-> "idle", ip |-> 0, stack |-> <<>>, result |-> "none",
           out |-> <<>>, undefined |-> FALSE]

BytecodeIdle ==
    /\ chunk = EmptyChunk /\ vm = VMIdle
    /\ written = <<>> /\ emitted = <<>> /\ ran = <<>>

(***************************************************************************)
(* Scanner                                                                 *)
(***************************************************************************)
\* Parser::Parser(tokens); returned: parse has returned; diverged: a loop of
\* the parser has made a turn without moving current
NewParser(tokens) ==
    [tokens |-> tokens, current |-> 0, statements |-> <<>>, returned |-> FALSE,
     diverged |-> FALSE]

\* an Evaluator about to evaluate the operand of a unary '!'
NewEvaluator(operand) ==
    [expr |-> [kind |-> "Unary", op |-> "!", right |-> operand],
     pc |-> "evaluate", right |-> Monostate, result |-> Monostate]

EvaluatorIdle == evaluator = NewEvaluator(Literal(Nothing))

\* no Parser has been made
ParserIdle ==
    /\ parser = NewParser(<<>>)
    /\ parseErrors = <<>>
    /\ parseLog = <<>>

\* Scanner::Scanner(source); returned: scanTokens has returned; threw: an
\* exception has left scanTokens
NewScanner(text) ==
    [source |-> text, tokens |-> <<>>, start |-> 0, current |-> 0, line |-> 1,
     returned |-> FALSE, threw |-> FALSE]

ScannerIdle ==
    /\ scanner = NewScanner(<<>>)
    /\ reported = <<>>
    /\ scanned = <<>>

\* Interpreter::globals is the first Environment
globals == 1

Node(path) == NodeAt([kind |-> "Program", body |-> statements], path)

Frame(f, path, i, vals, aux) ==
    [f |-> f, path |-> path, i |-> i, vals |-> vals, aux |-> aux]
NewFrame(path) == Frame(Node(path).kind, path, 0, <<>>, 0)
Top == stack[Len(stack)]
Pop == SubSeq(stack, 1, Len(stack) - 1)
TopIs(f) == pc = "interpret" /\ stack # <<>> /\ Top.f = f

\* number of FlintFunction::call activations on the C++ stack
CallDepth(stk) == Cardinality({k \in 1..Len(stk) : stk[k].f = "call"})

Ev2(e, path, v, w) ==
    [e |-> e, path |-> path, v |-> v, w |-> w, depth |-> CallDepth(stack),
     at |-> steps]
Ev(e, path, v) == Ev2(e, path, v, [t |-> "nullptr", v |-> 0])
NoSignal == [kind |-> "none", path |-> <<>>, depth |-> 0]
Sig(kind) == [kind |-> kind, path |-> Top.path, depth |-> CallDepth(stack)]

Tick == steps < MaxSteps /\ steps' = steps + 1

\* the activation on top returns v to its caller
Ret(v) == stack' = Pop /\ mode' = "ret" /\ result' = v /\ UNCHANGED signal
\* the activation on top throws
Throw(kind, v) ==
    stack' = Pop /\ mode' = "throw" /\ signal' = Sig(kind) /\ result' = v
\* the activation on top calls evaluate()/execute() on its k-th child
DescendFrom(top, k) ==
    /\ stack' = Append([stack EXCEPT ![Len(stack)] = [top EXCEPT !.i = k]],
                       NewFrame(top.path \o <<k>>))
    /\ mode' = "run"
    /\ UNCHANGED <<result, signal>>
Evaluate(k) == DescendFrom(Top, k) /\ UNCHANGED trace
Execute(k) ==
    DescendFrom(Top, k) /\ trace' = Append(trace, Ev("exec", Top.path \o <<k>>, Nothing))

(***************************************************************************)
(* Environment                                                             *)
(***************************************************************************)
EnvNew(es, enclosing) == Append(es, [values |-> EmptyMap, enclosing |-> enclosing])
EnvDefine(es, e, name, v) == [es EXCEPT ![e].values = Put(@, name, v)]

\* Environment::ancestors; 0 is the null pointer
RECURSIVE ancestors(_, _, _)
ancestors(es, e, distance) ==
    IF distance = 0 \/ e = 0 THEN e
    ELSE ancestors(es, es[e].enclosing, distance - 1)

\* the first environment from e outwards that binds name, 0 when none does
RECURSIVE Holder(_, _, _)
Holder(es, e, name) ==
    IF e = 0 THEN 0
    ELSE IF Has(es[e].values, name) THEN e
    ELSE Holder(es, es[e].enclosing, name)

IsNil(v) == v.t \in {"nullptr", "monostate"}

\* Environment::get: [ok, v]
EnvGet(es, e, name) ==
    LET h == Holder(es, e, name)
    IN  IF h = 0 \/ IsNil(es[h].values[name])
        THEN [ok |-> FALSE, v |-> Nothing]
        ELSE [ok |-> TRUE, v |-> es[h].values[name]]

\* Environment::getAt on an environment a that exists: values[name] inserts a
\* default-constructed value when name is missing
EnvGetAtValue(es, a, name) ==
    IF Has(es[a].values, name) THEN es[a].values[name] ELSE Monostate
EnvGetAtHeap(es, a, name) ==
    IF Has(es[a].values, name) THEN es ELSE EnvDefine(es, a, name, Monostate)

(***************************************************************************)
(* Flint::report, Flint::run                                               *)
(***************************************************************************)
\* faulty variant: report prints the diagnostic but leaves the flag alone
report_KeepsFlag(h) == h

\* the value of hadError after Flint::report
report(h) == TRUE

RECURSIVE Diags(_, _)
Diags(n, who) == IF n = 0 THEN <<>> ELSE Append(Diags(n - 1, who), Ev("diag", <<>>, Num(who)))

GlobalsValues == Put(EmptyMap, "print", Val("native", 1))

Init ==
    /\ statements \in Programs
    /\ source \in [scan : 0..MaxDiag, parse : 0..MaxDiag]
    /\ pc = "scan"
    /\ hadError = FALSE
    /\ hadRuntimeError = FALSE
    /\ locals = EmptyMap
    /\ envs = <<[values |-> GlobalsValues, enclosing |-> 0]>>
    /\ funcs = <<>>
    /\ classes = <<>>
    /\ instances = <<>>
    /\ environment = globals
    /\ isInsideLoop = FALSE
    /\ stack = <<>>
    /\ mode = "run"
    /\ result = Nothing
    /\ signal = NoSignal
    /\ trace = <<>>
    /\ steps = 0
    /\ BytecodeIdle /\ ScannerIdle /\ ParserIdle /\ EvaluatorIdle

\* scanner->scanTokens(): every scan diagnostic goes through Flint::error
ScanTokens ==
    /\ pc = "scan"
    /\ Tick
    /\ hadError' = IF source.scan > 0 THEN report(hadError) ELSE hadError
    /\ trace' = trace \o Diags(source.scan, 1)
    /\ pc' = "parse"
    /\ UNCHANGED <<bytecodeVars, scannerVars, parserVars, evaluatorVars>>
    /\ UNCHANGED <<statements, source, hadRuntimeError, locals, envs, funcs, classes,
                   instances, environment, isInsideLoop, stack, mode, result, signal>>

\* parser->parse(); if (hadError) return;
Parse ==
    /\ pc = "parse"
    /\ Tick
    /\ hadError' = IF source.parse > 0 THEN report(hadError) ELSE hadError
    /\ trace' = trace \o Diags(source.parse, 2)
    /\ pc' = IF hadError' THEN "returned" ELSE "resolve"
    /\ UNCHANGED <<bytecodeVars, scannerVars, parserVars, evaluatorVars>>
    /\ UNCHANGED <<statements, source, hadRuntimeError, locals, envs, funcs, classes,
                   instances, environment, isInsideLoop, stack, mode, result, signal>>

\* resolver->resolve(statements); if (hadError) return; interpreter->interpret(..)
RunResolver ==
    /\ pc = "resolve"
    /\ Tick
    /\ LET r == Resolve(statements)
       IN  /\ locals' = r.locals
           /\ hadError' = IF r.errors > 0 THEN report(hadError) ELSE hadError
           /\ trace' = trace \o Diags(r.errors, 3)
    /\ pc' = IF hadError' THEN "returned" ELSE "interpret"
    /\ stack' = IF hadError' THEN <<>> ELSE <<Frame("interpret", <<>>, 0, <<>>, 0)>>
    /\ mode' = "run"
    /\ UNCHANGED <<bytecodeVars, scannerVars, parserVars, evaluatorVars>>
    /\ UNCHANGED <<statements, source, hadRuntimeError, envs, funcs, classes,
                   instances, environment, isInsideLoop, result, signal>>

(***************************************************************************)
(* Interpreter: statements                                                 *)
(***************************************************************************)
\* Interpreter::interpret, the for loop
Interpret ==
    /\ TopIs("interpret") /\ mode \in {"run", "ret"}
    /\ Tick
    /\ IF Top.i < Len(statements)
       THEN Execute(Top.i + 1) /\ UNCHANGED pc
       ELSE /\ stack' = <<>> /\ pc' = "returned" /\ mode' = "ret"
            /\ UNCHANGED <<result, signal, trace>>
    /\ UNCHANGED <<bytecodeVars, scannerVars, parserVars, evaluatorVars>>
    /\ UNCHANGED <<statements, source, hadError, hadRuntimeError, locals, envs, funcs,
                   classes, instances, environment, isInsideLoop>>

\* Interpreter::interpret, catch (const RuntimeError&): Flint::runtimeError
InterpretCatch ==
    /\ TopIs("interpret") /\ mode = "throw" /\ signal.kind = "RuntimeError"
    /\ Tick
    /\ hadRuntimeError' = TRUE
    /\ trace' = Append(trace, Ev("report", signal.path, Num(Top.i)))
    /\ mode' = "ret"
    /\ UNCHANGED <<bytecodeVars, scannerVars, parserVars, evaluatorVars>>
    /\ UNCHANGED <<statements, source, pc, hadError, locals, envs, funcs, classes,
                   instances, environment, isInsideLoop, stack, result, signal>>

\* any other exception leaves interpret, Flint::run and main: std::terminate
Terminate ==
    /\ TopIs("interpret") /\ mode = "throw" /\ signal.kind # "RuntimeError"
    /\ Tick
    /\ pc' = "terminated"
    /\ stack' = <<>>
    /\ trace' = Append(trace, Ev("uncaught", signal.path, Num(Top.i)))
    /\ UNCHANGED <<bytecodeVars, scannerVars, parserVars, evaluatorVars>>
    /\ UNCHANGED <<statements, source, hadError, hadRuntimeError, locals, envs, funcs,
                   classes, instances, environment, isInsideLoop, mode, result, signal>>

\* Interpreter::executeBlock, the for loop and the normal exit
executeBlock ==
    /\ TopIs("executeBlock") /\ mode \in {"run", "ret"}
    /\ Tick
    /\ IF Top.i < Len(Kids(Node(Top.path)))
       THEN Execute(Top.i + 1) /\ UNCHANGED environment
       ELSE Ret(Nothing) /\ environment' = Top.aux /\ UNCHANGED trace
    /\ UNCHANGED <<bytecodeVars, scannerVars, parserVars, evaluatorVars>>
    /\ UNCHANGED <<statements, source, pc, hadError, hadRuntimeError, locals, envs,
                   funcs, classes, instances, isInsideLoop>>

\* faulty variant: the catch-all handler rethrows without restoring environment
executeBlockUnwind_NoRestore ==
    /\ TopIs("executeBlock") /\ mode = "throw"
    /\ Tick
    /\ stack' = Pop
    /\ UNCHANGED <<bytecodeVars, scannerVars, parserVars, evaluatorVars>>
    /\ UNCHANGED <<statements, source, pc, hadError, hadRuntimeError, locals, envs,
                   funcs, classes, instances, isInsideLoop, mode, result, signal, trace,
                   environment>>

\* Interpreter::executeBlock, catch (...) { environment = previous; throw; }
executeBlockUnwind ==
    /\ TopIs("executeBlock") /\ mode = "throw"
    /\ Tick
    /\ environment' = Top.aux
    /\ stack' = Pop
    /\ UNCHANGED <<bytecodeVars, scannerVars, parserVars, evaluatorVars>>
    /\ UNCHANGED <<statements, source, pc, hadError, hadRuntimeError, locals, envs,
                   funcs, classes, instances, isInsideLoop, mode, result, signal, trace>>

\* operator()(const BlockStmt&): a new Environment, then executeBlock
ExecBlockStmt ==
    /\ TopIs("BlockStmt") /\ mode = "run"
    /\ Tick
    /\ envs' = EnvNew(envs, environment)
    /\ environment' = Len(envs) + 1
    /\ stack' = Append(Pop, Frame("executeBlock", Top.path, 0, <<Len(envs) + 1>>,
                                  environment))
    /\ UNCHANGED <<bytecodeVars, scannerVars, parserVars, evaluatorVars>>
    /\ UNCHANGED <<statements, source, pc, hadError, hadRuntimeError, locals, funcs,
                   classes, instances, isInsideLoop, mode, result, signal, trace>>

\* operator()(const ExpressionStmt&)
ExecExpressionStmt ==
    /\ TopIs("ExpressionStmt") /\ mode \in {"run", "ret"}
    /\ Tick
    /\ IF mode = "run" THEN Evaluate(1) ELSE Ret(Nothing) /\ UNCHANGED trace
    /\ UNCHANGED <<bytecodeVars, scannerVars, parserVars, evaluatorVars>>
    /\ UNCHANGED <<statements, source, pc, hadError, hadRuntimeError, locals, envs,
                   funcs, classes, instances, environment, isInsideLoop>>

\* operator()(const LetStmt&): Top.i is the declaration being initialised
ExecLetStmt ==
    /\ TopIs("LetStmt") /\ mode \in {"run", "ret"}
    /\ Tick
    /\ LET decls == Node(Top.path).declarations
           es == IF mode = "ret"
                 THEN EnvDefine(envs, environment, decls[Top.i].name, result)
                 ELSE envs
           k == Top.i + 1
       IN  /\ envs' = es
           /\ IF k > Len(decls) THEN Ret(Nothing) /\ UNCHANGED trace
              ELSE IF decls[k].initializer.kind = "Null"
              THEN /\ stack' = [stack EXCEPT ![Len(stack)].i = k]
                   /\ result' = Nothing /\ mode' = "ret"
                   /\ UNCHANGED <<signal, trace>>
              ELSE Evaluate(k)
    /\ UNCHANGED <<bytecodeVars, scannerVars, parserVars, evaluatorVars>>
    /\ UNCHANGED <<statements, source, pc, hadError, hadRuntimeError, locals,
                   funcs, classes, instances, environment, isInsideLoop>>

\* Evaluator::isTruthy
isTruthy(v) ==
    CASE v.t \in {"monostate", "nullptr"} -> FALSE
      [] v.t = "bool" -> v.v = 1
      [] v.t = "double" -> v.v # 0
      [] v.t = "std::string" -> v.v # <<>>
      [] OTHER -> TRUE    \* shared_ptr<FlintString> too

\* operator()(const IfStmt&)
ExecIfStmt ==
    /\ TopIs("IfStmt") /\ mode \in {"run", "ret"}
    /\ Tick
    /\ IF mode = "run" THEN Evaluate(1)
       ELSE IF Top.i = 1
       THEN IF isTruthy(result) THEN Execute(2)
            ELSE IF Node(Top.path).elseBranch.kind # "Null" THEN Execute(3)
            ELSE Ret(Nothing) /\ UNCHANGED trace
       ELSE Ret(Nothing) /\ UNCHANGED trace
    /\ UNCHANGED <<bytecodeVars, scannerVars, parserVars, evaluatorVars>>
    /\ UNCHANGED <<statements, source, pc, hadError, hadRuntimeError, locals, envs,
                   funcs, classes, instances, environment, isInsideLoop>>

\* operator()(const WhileStmt&).  Top.aux is previousInsideLoop; Top.i = 1 while
\* the condition is evaluated, 2 while the body executes inside the try block.
ExecWhileStmt ==
    /\ TopIs("WhileStmt") /\ mode \in {"run", "ret"}
    /\ Tick
    /\ IF mode = "run"
       THEN /\ isInsideLoop' = TRUE
            /\ DescendFrom([Top EXCEPT !.aux = IF isInsideLoop THEN 1 ELSE 0], 1)
            /\ UNCHANGED trace
       ELSE IF Top.i = 1
       THEN IF isTruthy(result)
            THEN /\ DescendFrom(Top, 2)
                 /\ trace' = trace \o <<Ev("cond", Top.path, result),
                                         Ev("exec", Top.path \o <<2>>, Nothing)>>
                 /\ UNCHANGED isInsideLoop
            ELSE /\ Ret(Nothing) /\ isInsideLoop' = (Top.aux = 1)
                 /\ trace' = Append(trace, Ev("cond", Top.path, result))
       ELSE Evaluate(1) /\ UNCHANGED isInsideLoop
    /\ UNCHANGED <<bytecodeVars, scannerVars, parserVars, evaluatorVars>>
    /\ UNCHANGED <<statements, source, pc, hadError, hadRuntimeError, locals, envs,
                   funcs, classes, instances, environment>>

\* operator()(const WhileStmt&): catch (BreakException) / catch (ContinueException)
\* around execute(stmt.statement)
WhileCatch ==
    /\ TopIs("WhileStmt") /\ mode = "throw" /\ Top.i = 2
    /\ signal.kind \in {"Break", "Continue"}
    /\ Tick
    /\ trace' = Append(trace, Ev2("catch", Top.path, Nothing, Num(signal.depth)))
    /\ IF signal.kind = "Break"
       THEN /\ stack' = Pop /\ mode' = "ret" /\ result' = Nothing
            /\ isInsideLoop' = (Top.aux = 1)
            /\ UNCHANGED signal
       ELSE /\ DescendFrom(Top, 1)
            /\ UNCHANGED isInsideLoop
    /\ UNCHANGED <<bytecodeVars, scannerVars, parserVars, evaluatorVars>>
    /\ UNCHANGED <<statements, source, pc, hadError, hadRuntimeError, locals, envs,
                   funcs, classes, instances, environment>>

\* operator()(const TryCatchContinueStmt&)
ExecTryCatchContinueStmt ==
    /\ TopIs("TryCatchContinueStmt") /\ mode \in {"run", "ret"}
    /\ Tick
    /\ IF mode = "run" THEN Execute(1) ELSE Ret(Nothing) /\ UNCHANGED trace
    /\ UNCHANGED <<bytecodeVars, scannerVars, parserVars, evaluatorVars>>
    /\ UNCHANGED <<statements, source, pc, hadError, hadRuntimeError, locals, envs,
                   funcs, classes, instances, environment, isInsideLoop>>

\* faulty variant: the wrapper lets the ContinueException through
TryCatchContinueCatch_Rethrows ==
    /\ TopIs("TryCatchContinueStmt") /\ mode = "throw" /\ signal.kind = "Continue"
    /\ Tick
    /\ stack' = Pop
    /\ UNCHANGED <<bytecodeVars, scannerVars, parserVars, evaluatorVars>>
    /\ UNCHANGED <<statements, source, pc, hadError, hadRuntimeError, locals, envs,
                   funcs, classes, instances, environment, isInsideLoop, signal, mode,
                   result, trace>>

\* operator()(const TryCatchContinueStmt&): catch (const ContinueException&) {}
TryCatchContinueCatch ==
    /\ TopIs("TryCatchContinueStmt") /\ mode = "throw" /\ signal.kind = "Continue"
    /\ Tick
    /\ trace' = Append(trace, Ev2("catch", Top.path, Nothing, Num(signal.depth)))
    /\ stack' = Pop /\ mode' = "ret" /\ result' = Nothing
    /\ UNCHANGED <<bytecodeVars, scannerVars, parserVars, evaluatorVars>>
    /\ UNCHANGED <<statements, source, pc, hadError, hadRuntimeError, locals, envs,
                   funcs, classes, instances, environment, isInsideLoop, signal>>

\* operator()(const BreakStmt&), operator()(const ContinueStmt&)
loopSignal(inside, kind) == IF ~inside THEN "RuntimeError" ELSE kind

ExecBreakStmt ==
    /\ TopIs("BreakStmt") /\ mode = "run"
    /\ Tick
    /\ Throw(loopSignal(isInsideLoop, "Break"), Nothing)
    /\ trace' = Append(trace, Ev(loopSignal(isInsideLoop, "Break"), Top.path, Nothing))
    /\ UNCHANGED <<bytecodeVars, scannerVars, parserVars, evaluatorVars>>
    /\ UNCHANGED <<statements, source, pc, hadError, hadRuntimeError, locals, envs,
                   funcs, classes, instances, environment, isInsideLoop>>

ExecContinueStmt ==
    /\ TopIs("ContinueStmt") /\ mode = "run"
    /\ Tick
    /\ Throw(loopSignal(isInsideLoop, "Continue"), Nothing)
    /\ trace' = Append(trace, Ev(loopSignal(isInsideLoop, "Continue"), Top.path, Nothing))
    /\ UNCHANGED <<bytecodeVars, scannerVars, parserVars, evaluatorVars>>
    /\ UNCHANGED <<statements, source, pc, hadError, hadRuntimeError, locals, envs,
                   funcs, classes, instances, environment, isInsideLoop>>

\* operator()(const ReturnStmt&)
ExecReturnStmt ==
    /\ TopIs("ReturnStmt") /\ mode \in {"run", "ret"}
    /\ Tick
    /\ IF mode = "run" /\ Node(Top.path).val.kind # "Null"
       THEN Evaluate(1)
       ELSE LET val == IF mode = "ret" THEN result ELSE Nothing
            IN  /\ Throw("Return", val)
                /\ trace' = Append(trace, Ev("Return", Top.path, val))
    /\ UNCHANGED <<bytecodeVars, scannerVars, parserVars, evaluatorVars>>
    /\ UNCHANGED <<statements, source, pc, hadError, hadRuntimeError, locals, envs,
                   funcs, classes, instances, environment, isInsideLoop>>

\* a FlintFunction object
Function(declaration, closure, isInitializer) ==
    [declaration |-> declaration, closure |-> closure, isInitializer |-> isInitializer]

\* operator()(const FunctionStmt&)
ExecFunctionStmt ==
    /\ TopIs("FunctionStmt") /\ mode = "run"
    /\ Tick
    /\ funcs' = Append(funcs, Function(Top.path, environment, FALSE))
    /\ envs' = EnvDefine(envs, environment, Node(Top.path).name,
                         Val("function", Len(funcs) + 1))
    /\ Ret(Nothing)
    /\ UNCHANGED <<bytecodeVars, scannerVars, parserVars, evaluatorVars>>
    /\ UNCHANGED <<statements, source, pc, hadError, hadRuntimeError, locals,
                   classes, instances, environment, isInsideLoop, trace>>

\* an exception passes through an activation that has no handler for it
Catches(fr, sig) ==
    \/ fr.f \in {"interpret", "executeBlock"}
    \/ fr.f = "call" /\ sig.kind = "Return"
    \/ fr.f = "WhileStmt" /\ fr.i = 2 /\ sig.kind \in {"Break", "Continue"}
    \/ fr.f = "TryCatchContinueStmt" /\ sig.kind = "Continue"

Propagate ==
    /\ pc = "interpret" /\ stack # <<>> /\ mode = "throw"
    /\ ~Catches(Top, signal)
    /\ Tick
    /\ stack' = Pop
    /\ UNCHANGED <<bytecodeVars, scannerVars, parserVars, evaluatorVars>>
    /\ UNCHANGED <<statements, source, pc, hadError, hadRuntimeError, locals, envs,
                   funcs, classes, instances, environment, isInsideLoop, mode, result,
                   signal, trace>>

\* Evaluator::operator()(const Literal&): a string becomes a FlintString; a
\* string is the sequence of its characters
literalValue(value) ==
    IF value.t = "std::string" THEN Val("FlintString", value.v) ELSE value

(***************************************************************************)
(* Evaluator: expressions                                                  *)
(***************************************************************************)
\* operator()(const Literal&)
EvalLiteral ==
    /\ TopIs("Literal") /\ mode = "run"
    /\ Tick
    /\ Ret(literalValue(Node(Top.path).value))
    /\ UNCHANGED <<bytecodeVars, scannerVars, parserVars, evaluatorVars>>
    /\ UNCHANGED <<statements, source, pc, hadError, hadRuntimeError, locals, envs,
                   funcs, classes, instances, environment, isInsideLoop, trace>>

\* operator()(const Grouping&)
EvalGrouping ==
    /\ TopIs("Grouping") /\ mode \in {"run", "ret"}
    /\ Tick
    /\ IF mode = "run" THEN Evaluate(1) ELSE Ret(result) /\ UNCHANGED trace
    /\ UNCHANGED <<bytecodeVars, scannerVars, parserVars, evaluatorVars>>
    /\ UNCHANGED <<statements, source, pc, hadError, hadRuntimeError, locals, envs,
                   funcs, classes, instances, environment, isInsideLoop>>

\* Evaluator::lookUpVariable, for the Variable or This expression on top
lookUpVariable(name) ==
    IF Has(locals, Top.path)
    THEN LET a == ancestors(envs, environment, locals[Top.path])
         IN  IF a = 0
             THEN \* a null Environment is dereferenced
                  /\ pc' = "crashed" /\ stack' = <<>>
                  /\ UNCHANGED <<mode, result, signal, envs>>
             ELSE /\ Ret(EnvGetAtValue(envs, a, name))
                  /\ envs' = EnvGetAtHeap(envs, a, name)
                  /\ UNCHANGED pc
    ELSE LET g == EnvGet(envs, globals, name)
         IN  /\ IF g.ok THEN Ret(g.v) ELSE Throw("RuntimeError", Nothing)
             /\ UNCHANGED <<pc, envs>>

\* operator()(const Variable&, ExprPtr)
EvalVariable ==
    /\ TopIs("Variable") /\ mode = "run"
    /\ Tick
    /\ lookUpVariable(Node(Top.path).name)
    /\ UNCHANGED <<bytecodeVars, scannerVars, parserVars, evaluatorVars>>
    /\ UNCHANGED <<statements, source, hadError, hadRuntimeError, locals,
                   funcs, classes, instances, environment, isInsideLoop, trace>>

\* operator()(const This&, ExprPtr)
EvalThis ==
    /\ TopIs("This") /\ mode = "run"
    /\ Tick
    /\ lookUpVariable(Node(Top.path).keyword)
    /\ UNCHANGED <<bytecodeVars, scannerVars, parserVars, evaluatorVars>>
    /\ UNCHANGED <<statements, source, hadError, hadRuntimeError, locals,
                   funcs, classes, instances, environment, isInsideLoop, trace>>

\* operator()(const Assignment&, ExprPtr)
EvalAssignment ==
    /\ TopIs("Assignment") /\ mode \in {"run", "ret"}
    /\ Tick
    /\ IF mode = "run" THEN Evaluate(1) /\ UNCHANGED <<pc, envs>>
       ELSE LET name == Node(Top.path).name
            IN  IF Has(locals, Top.path)
                THEN LET a == ancestors(envs, environment, locals[Top.path])
                     IN  IF a = 0
                         THEN /\ pc' = "crashed" /\ stack' = <<>>
                              /\ UNCHANGED <<mode, result, signal, envs, trace>>
                         ELSE /\ envs' = EnvDefine(envs, a, name, result)
                              /\ Ret(result)
                              /\ UNCHANGED <<pc, trace>>
                ELSE LET h == Holder(envs, globals, name)
                     IN  /\ IF h = 0
                            THEN Throw("RuntimeError", Nothing) /\ UNCHANGED envs
                            ELSE Ret(result) /\ envs' = EnvDefine(envs, h, name, result)
                         /\ UNCHANGED <<pc, trace>>
    /\ UNCHANGED <<bytecodeVars, scannerVars, parserVars, evaluatorVars>>
    /\ UNCHANGED <<statements, source, hadError, hadRuntimeError, locals,
                   funcs, classes, instances, environment, isInsideLoop>>

\* operator()(const Binary&) for + and < : [ok, v]
BinaryOp(op, left, right) ==
    IF left.t = "double" /\ right.t = "double"
    THEN [ok |-> TRUE,
          v |-> IF op = "+" THEN Num(left.v + right.v) ELSE Bool(left.v < right.v)]
    ELSE [ok |-> FALSE, v |-> Nothing]

EvalBinary ==
    /\ TopIs("Binary") /\ mode \in {"run", "ret"}
    /\ Tick
    /\ IF mode = "run" THEN Evaluate(1)
       ELSE IF Top.i = 1
       THEN DescendFrom([Top EXCEPT !.vals = <<result>>], 2) /\ UNCHANGED trace
       ELSE LET b == BinaryOp(Node(Top.path).op, Top.vals[1], result)
            IN  /\ IF b.ok THEN Ret(b.v) ELSE Throw("RuntimeError", Nothing)
                /\ UNCHANGED trace
    /\ UNCHANGED <<bytecodeVars, scannerVars, parserVars, evaluatorVars>>
    /\ UNCHANGED <<statements, source, pc, hadError, hadRuntimeError, locals, envs,
                   funcs, classes, instances, environment, isInsideLoop>>

\* operator()(const Lambda&)
EvalLambda ==
    /\ TopIs("Lambda") /\ mode = "run"
    /\ Tick
    /\ funcs' = Append(funcs, Function(Top.path \o <<1>>, environment, FALSE))
    /\ Ret(Val("function", Len(funcs) + 1))
    /\ UNCHANGED <<bytecodeVars, scannerVars, parserVars, evaluatorVars>>
    /\ UNCHANGED <<statements, source, pc, hadError, hadRuntimeError, locals, envs,
                   classes, instances, environment, isInsideLoop, trace>>

(***************************************************************************)
(* FlintFunction                                                           *)
(***************************************************************************)
\* FlintFunction::call, up to executeBlock: the environment of the call
RECURSIVE DefineParams(_, _, _, _, _)
DefineParams(es, e, params, args, k) ==
    IF k > Len(params) THEN es
    ELSE DefineParams(EnvDefine(es, e, params[k], args[k]), e, params, args, k + 1)

\* faulty variant: the environment of a call encloses globals (dynamic scope)
callEnvironment_Dynamic(es, closure) == EnvNew(es, globals)

\* FlintFunction::call: std::make_shared<Environment>(closure)
callEnvironment(es, closure) == EnvNew(es, closure)

\* the activations FlintFunction::call puts on the stack: itself and
\* executeBlock(declaration->body, environment), which saves `previous`
CallFrames(f, fn, newEnv, previous) ==
    <<Frame("call", fn.declaration, 0, <<>>, f),
      Frame("executeBlock", fn.declaration, 0, <<newEnv>>, previous)>>

\* faulty variant: the value carried by the ReturnException is dropped
callResult_DropsValue(es, fn, val) ==
    IF fn.isInitializer
    THEN [v |-> EnvGetAtValue(es, fn.closure, "this"),
          envs |-> EnvGetAtHeap(es, fn.closure, "this")]
    ELSE [v |-> Nothing, envs |-> es]

\* faulty variant: an initializer returns like any other function
callResult_IgnoresInitializer(es, fn, val) == [v |-> val, envs |-> es]

\* the value FlintFunction::call returns: [v, envs]
callResult(es, fn, val) ==
    IF fn.isInitializer
    THEN [v |-> EnvGetAtValue(es, fn.closure, "this"),
          envs |-> EnvGetAtHeap(es, fn.closure, "this")]
    ELSE [v |-> val, envs |-> es]

\* FlintFunction::call after executeBlock returned normally
CallReturn ==
    /\ TopIs("call") /\ mode = "ret"
    /\ Tick
    /\ LET r == callResult(envs, funcs[Top.aux], Nothing)
       IN  /\ Ret(r.v) /\ envs' = r.envs
           /\ trace' = Append(trace, Ev("return", Top.path, r.v))
    /\ UNCHANGED <<bytecodeVars, scannerVars, parserVars, evaluatorVars>>
    /\ UNCHANGED <<statements, source, pc, hadError, hadRuntimeError, locals,
                   funcs, classes, instances, environment, isInsideLoop>>

\* FlintFunction::call, catch (const ReturnException &e)
CallCatch ==
    /\ TopIs("call") /\ mode = "throw" /\ signal.kind = "Return"
    /\ Tick
    /\ LET r == callResult(envs, funcs[Top.aux], result)
       IN  /\ Ret(r.v) /\ envs' = r.envs
           /\ trace' = Append(trace, Ev2("catch", Top.path, r.v, Num(signal.depth)))
    /\ UNCHANGED <<bytecodeVars, scannerVars, parserVars, evaluatorVars>>
    /\ UNCHANGED <<statements, source, pc, hadError, hadRuntimeError, locals,
                   funcs, classes, instances, environment, isInsideLoop>>

\* FlintFunction::bind: [envs, funcs, f], f the bound function
bind(es, fs, m, instance) ==
    [envs |-> EnvDefine(EnvNew(es, fs[m].closure), Len(es) + 1, "this", instance),
     funcs |-> Append(fs, Function(fs[m].declaration, Len(es) + 1,
                                   fs[m].isInitializer)),
     f |-> Len(fs) + 1]

(***************************************************************************)
(* FlintClass, FlintInstance                                               *)
(***************************************************************************)
\* FlintClass::findMethod; 0 is nullptr
RECURSIVE findMethod(_, _, _)
findMethod(cs, c, name) ==
    IF Has(cs[c].instanceMethods, name) THEN cs[c].instanceMethods[name]
    ELSE IF cs[c].superClass # 0 THEN findMethod(cs, cs[c].superClass, name)
    ELSE 0

\* FlintCallable::arity of a callee
arity(callee) ==
    CASE callee.t = "function" -> Len(Node(funcs[callee.v].declaration).params)
      [] callee.t = "class" ->
            LET initializer == findMethod(classes, callee.v, "init")
            IN  IF initializer # 0
                THEN Len(Node(funcs[initializer].declaration).params) ELSE 0
      [] OTHER -> 0 - 1

\* the method table the ClassStmt visitor builds from methods[k..]: the
\* function made for methods[k] is funcs[first + k]
RECURSIVE MethodTable(_, _, _, _)
MethodTable(methods, first, k, m) ==
    IF k > Len(methods) THEN m
    ELSE MethodTable(methods, first, k + 1, Put(m, methods[k].name, first + k))

MethodFunctions(methods, path, offset, closure) ==
    [k \in 1..Len(methods) |->
        Function(path \o <<offset + k>>, closure, methods[k].name = "init")]

\* operator()(const ClassStmt&)
ExecClassStmt ==
    /\ TopIs("ClassStmt") /\ mode \in {"run", "ret"}
    /\ Tick
    /\ LET n == Node(Top.path)
       IN  IF mode = "run" /\ n.superClass.kind # "Null"
           THEN Evaluate(1) /\ UNCHANGED <<envs, funcs, classes>>
           ELSE IF mode = "ret" /\ result.t # "class"
           THEN /\ Throw("RuntimeError", Nothing)
                /\ UNCHANGED <<envs, funcs, classes, trace>>
           ELSE LET convertedClass == IF mode = "ret" THEN result.v ELSE 0
                    es1 == EnvDefine(envs, environment, n.name, Nothing)
                    es2 == IF convertedClass # 0
                           THEN EnvDefine(EnvNew(es1, environment), Len(es1) + 1,
                                          "super", Val("class", convertedClass))
                           ELSE es1
                    menv == IF convertedClass # 0 THEN Len(es1) + 1 ELSE environment
                    nc == Len(n.classMethods)
                    klass == [name |-> n.name,
                              instanceMethods |->
                                  MethodTable(n.instanceMethods, Len(funcs) + nc, 1,
                                              EmptyMap),
                              classMethods |->
                                  MethodTable(n.classMethods, Len(funcs), 1, EmptyMap),
                              superClass |-> convertedClass]
                IN  /\ funcs' = funcs \o MethodFunctions(n.classMethods, Top.path, 1, menv)
                                      \o MethodFunctions(n.instanceMethods, Top.path,
                                                         1 + nc, menv)
                    /\ classes' = Append(classes, klass)
                    /\ envs' = EnvDefine(es2, Holder(es2, environment, n.name), n.name,
                                         Val("class", Len(classes) + 1))
                    /\ Ret(Nothing)
                    /\ UNCHANGED trace
    /\ UNCHANGED <<bytecodeVars, scannerVars, parserVars, evaluatorVars>>
    /\ UNCHANGED <<statements, source, pc, hadError, hadRuntimeError, locals,
                   instances, environment, isInsideLoop>>

\* FlintClass::call after the initializer returned
ClassCallReturn ==
    /\ TopIs("classCall") /\ mode = "ret"
    /\ Tick
    /\ Ret(Val("instance", Top.aux))
    /\ trace' = Append(trace, Ev2("new", Top.path, Val("instance", Top.aux),
                                  stack[Len(stack) - 1].vals[1]))
    /\ UNCHANGED <<bytecodeVars, scannerVars, parserVars, evaluatorVars>>
    /\ UNCHANGED <<statements, source, pc, hadError, hadRuntimeError, locals, envs,
                   funcs, classes, instances, environment, isInsideLoop>>

\* faulty variant: methods are looked up before fields
instanceGet_MethodFirst(inst, name) ==
    LET m == findMethod(classes, inst.klass, name)
    IN  IF m # 0 THEN [kind |-> "method", v |-> Nothing, m |-> m]
        ELSE IF Has(inst.fields, name)
        THEN [kind |-> "field", v |-> inst.fields[name], m |-> 0]
        ELSE [kind |-> "none", v |-> Nothing, m |-> 0]

\* FlintInstance::get: which member answers a read of `name`
\* [kind: "field" | "method" | "none", v: the field, m: the method]
instanceGet(inst, name) ==
    IF Has(inst.fields, name)
    THEN [kind |-> "field", v |-> inst.fields[name], m |-> 0]
    ELSE LET m == findMethod(classes, inst.klass, name)
         IN  IF m # 0 THEN [kind |-> "method", v |-> Nothing, m |-> m]
             ELSE [kind |-> "none", v |-> Nothing, m |-> 0]

\* operator()(const Get&), FlintInstance::get, FlintClass::get
EvalGet ==
    /\ TopIs("Get") /\ mode \in {"run", "ret"}
    /\ Tick
    /\ LET name == Node(Top.path).name
       IN  IF mode = "run"
           THEN Evaluate(1) /\ UNCHANGED <<envs, funcs, environment>>
           ELSE IF Top.i = 2
           THEN Ret(result) /\ UNCHANGED <<envs, funcs, environment, trace>>
           ELSE IF result.t = "class"
           THEN /\ IF Has(classes[result.v].classMethods, name)
                   THEN Ret(Val("function", classes[result.v].classMethods[name]))
                   ELSE Throw("RuntimeError", Nothing)
                /\ UNCHANGED <<envs, funcs, environment, trace>>
           ELSE IF result.t # "instance"
           THEN /\ Throw("RuntimeError", Nothing)
                /\ UNCHANGED <<envs, funcs, environment, trace>>
           ELSE LET g == instanceGet(instances[result.v], name)
                    b == bind(envs, funcs, g.m, result)
                    fn == b.funcs[b.f]
                IN  IF g.kind = "field"
                    THEN /\ Ret(g.v)
                         /\ trace' = Append(trace, Ev2("field", Top.path, g.v, result))
                         /\ UNCHANGED <<envs, funcs, environment>>
                    ELSE IF g.kind = "none"
                    THEN /\ Throw("RuntimeError", Nothing)
                         /\ trace' = Append(trace,
                                Ev2("undefined", Top.path, Nothing, result))
                         /\ UNCHANGED <<envs, funcs, environment>>
                    ELSE IF ~Node(fn.declaration).isGetter
                    THEN /\ Ret(Val("function", b.f))
                         /\ envs' = b.envs /\ funcs' = b.funcs
                         /\ trace' = Append(trace,
                                Ev2("method", Top.path, Val("function", b.f), result))
                         /\ UNCHANGED environment
                    ELSE \* boundFn->call(interpreter, {}, name)
                         /\ envs' = callEnvironment(b.envs, fn.closure)
                         /\ funcs' = b.funcs
                         /\ environment' = Len(b.envs) + 1
                         /\ stack' = [stack EXCEPT ![Len(stack)].i = 2]
                                     \o CallFrames(b.f, fn, Len(b.envs) + 1, environment)
                         /\ mode' = "run"
                         /\ trace' = Append(trace,
                                Ev2("getter", Top.path, Val("function", b.f), result))
                         /\ UNCHANGED <<result, signal>>
    /\ UNCHANGED <<bytecodeVars, scannerVars, parserVars, evaluatorVars>>
    /\ UNCHANGED <<statements, source, pc, hadError, hadRuntimeError, locals,
                   classes, instances, isInsideLoop>>

\* operator()(const Set&), FlintInstance::set
EvalSet ==
    /\ TopIs("Set") /\ mode \in {"run", "ret"}
    /\ Tick
    /\ IF mode = "run" THEN Evaluate(1) /\ UNCHANGED instances
       ELSE IF Top.i = 1
       THEN IF result.t # "instance"
            THEN Throw("RuntimeError", Nothing) /\ UNCHANGED <<instances, trace>>
            ELSE /\ DescendFrom([Top EXCEPT !.vals = <<result>>], 2)
                 /\ UNCHANGED <<instances, trace>>
       ELSE /\ instances' = [instances EXCEPT ![Top.vals[1].v].fields =
                                Put(@, Node(Top.path).name, result)]
            /\ Ret(result)
            /\ trace' = Append(trace, Ev2("set", Top.path, result, Top.vals[1]))
    /\ UNCHANGED <<bytecodeVars, scannerVars, parserVars, evaluatorVars>>
    /\ UNCHANGED <<statements, source, pc, hadError, hadRuntimeError, locals, envs,
                   funcs, classes, environment, isInsideLoop>>

\* operator()(const Call&): Top.vals collects callee and arguments
EvalCall ==
    /\ TopIs("Call") /\ mode \in {"run", "ret"}
    /\ Tick
    /\ LET n == Node(Top.path)
           nk == 1 + Len(n.arguments)
           vals == IF mode = "ret" THEN Append(Top.vals, result) ELSE Top.vals
           callee == vals[1]
           args == Tail(vals)
       IN  IF Top.i < nk
           THEN /\ DescendFrom([Top EXCEPT !.vals = vals], Top.i + 1)
                /\ UNCHANGED <<envs, funcs, instances, environment, trace>>
           ELSE IF Top.i > nk
           THEN \* function->call returned
                Ret(result) /\ UNCHANGED <<envs, funcs, instances, environment, trace>>
           ELSE IF callee.t \notin {"function", "native", "class"}
                   \/ (arity(callee) # 0 - 1 /\ arity(callee) # Len(args))
           THEN /\ Throw("RuntimeError", Nothing)
                /\ UNCHANGED <<envs, funcs, instances, environment, trace>>
           ELSE IF callee.t = "native"
           THEN /\ Ret(Nothing)
                /\ trace' = trace \o [k \in 1..Len(args) |-> Ev("print", Top.path, args[k])]
                /\ UNCHANGED <<envs, funcs, instances, environment>>
           ELSE IF callee.t = "function"
           THEN LET fn == funcs[callee.v]
                    e == Len(envs) + 1
                IN  /\ envs' = DefineParams(callEnvironment(envs, fn.closure), e,
                                            Node(fn.declaration).params, args, 1)
                    /\ environment' = e
                    /\ stack' = [stack EXCEPT ![Len(stack)] =
                                    [Top EXCEPT !.i = nk + 1, !.vals = vals]]
                                \o CallFrames(callee.v, fn, e, environment)
                    /\ mode' = "run"
                    /\ trace' = Append(trace, Ev("call", Top.path, callee))
                    /\ UNCHANGED <<result, signal, funcs, instances>>
           ELSE \* FlintClass::call
                LET instance == Val("instance", Len(instances) + 1)
                    initializer == findMethod(classes, callee.v, "init")
                    b == bind(envs, funcs, initializer, instance)
                    fn == b.funcs[b.f]
                    e == Len(b.envs) + 1
                IN  /\ instances' = Append(instances,
                                           [klass |-> callee.v, fields |-> EmptyMap])
                    /\ IF initializer = 0
                       THEN /\ Ret(instance)
                            /\ trace' = Append(trace,
                                   Ev2("new", Top.path, instance, callee))
                            /\ UNCHANGED <<envs, funcs, environment>>
                       ELSE /\ envs' = DefineParams(callEnvironment(b.envs, fn.closure),
                                           e, Node(fn.declaration).params, args, 1)
                            /\ funcs' = b.funcs
                            /\ environment' = e
                            /\ stack' = [stack EXCEPT ![Len(stack)] =
                                            [Top EXCEPT !.i = nk + 1, !.vals = vals]]
                                        \o <<Frame("classCall", Top.path, 0, <<>>,
                                                   instance.v)>>
                                        \o CallFrames(b.f, fn, e, environment)
                            /\ mode' = "run"
                            /\ trace' = Append(trace,
                                   Ev("call", Top.path, Val("function", b.f)))
                            /\ UNCHANGED <<result, signal>>
    /\ UNCHANGED <<bytecodeVars, scannerVars, parserVars, evaluatorVars>>
    /\ UNCHANGED <<statements, source, pc, hadError, hadRuntimeError, locals,
                   classes, isInsideLoop>>

Next ==
    \/ ScanTokens \/ Parse \/ RunResolver
    \/ Interpret \/ InterpretCatch \/ Terminate
    \/ executeBlock \/ executeBlockUnwind
    \/ ExecBlockStmt \/ ExecExpressionStmt \/ ExecLetStmt
    \/ ExecWhileStmt \/ WhileCatch
    \/ ExecTryCatchContinueStmt \/ TryCatchContinueCatch
    \/ ExecBreakStmt \/ ExecContinueStmt \/ ExecReturnStmt
    \/ Propagate
    \/ EvalLiteral \/ EvalGrouping \/ EvalVariable \/ EvalAssignment
    \/ EvalBinary \/ EvalLambda \/ EvalCall \/ CallReturn \/ CallCatch
    \/ ExecIfStmt \/ ExecFunctionStmt
    \/ ExecClassStmt \/ ClassCallReturn \/ EvalThis \/ EvalGet \/ EvalSet

Spec == Init /\ [][Next]_vars

(***************************************************************************)
(* Bytecode VM: a chunk is built by writeChunk and writeConstant calls on  *)
(* a chunk whose pool already holds some constants, and is then run.       *)
(***************************************************************************)
\* Flint::run is not in progress
FlintIdle ==
    /\ statements = <<>> /\ source = [scan |-> 0, parse |-> 0]
    /\ pc = "returned" /\ hadError = FALSE /\ hadRuntimeError = FALSE
    /\ locals = EmptyMap
    /\ envs = <<[values |-> GlobalsValues, enclosing |-> 0]>>
    /\ funcs = <<>> /\ classes = <<>> /\ instances = <<>>
    /\ environment = globals /\ isInsideLoop = FALSE
    /\ stack = <<>> /\ mode = "run" /\ result = Nothing /\ signal = NoSignal
    /\ trace = <<>> /\ steps = 0

PoolSizes == {0, 255}
Values == {Double(1, 0, 1), Double(1, 2, 1)}
OtherBytes == {200}
ChunkBytes == {OpCode.OP_RETURN}
VMBytes ==
    {OpCode.OP_RETURN, ArithOpCode.OP_NEGATE, ArithOpCode.OP_ADD,
     ArithOpCode.OP_SUBTRACT, ArithOpCode.OP_MULTIPLY, ArithOpCode.OP_DIVIDE}
        \cup OtherBytes

InitChunk ==
    /\ FlintIdle /\ ScannerIdle /\ ParserIdle /\ EvaluatorIdle
    /\ chunk \in {Pool(n) : n \in PoolSizes}
    /\ vm = VMIdle
    /\ written = <<>> /\ emitted = <<>> /\ ran = <<>>

\* chunk.writeChunk(byte, line)
WriteChunk(bytes, lineNumbers) ==
    /\ vm.state = "idle" /\ Len(emitted) < MaxWrites
    /\ \E byte \in bytes, line \in lineNumbers :
          /\ chunk' = writeChunk(chunk, byte, line)
          /\ written' = Append(written, line)
          /\ emitted' = Append(emitted,
                 [call |-> "writeChunk", byte |-> byte, val |-> Double(1, 0, 1),
                  line |-> line, offset |-> Len(chunk.code), index |-> 0])
    /\ UNCHANGED <<vm, ran, flintVars, scannerVars, parserVars, evaluatorVars>>

\* chunk.writeConstant(val, line)
WriteConstant(values, lineNumbers) ==
    /\ vm.state = "idle" /\ Len(emitted) < MaxWrites
    /\ \E val \in values, line \in lineNumbers :
          /\ chunk' = writeConstant(chunk, val, line)
          /\ written' = written \o
                 [k \in 1..(Len(chunk'.code) - Len(chunk.code)) |-> line]
          /\ emitted' = Append(emitted,
                 [call |-> "writeConstant", byte |-> 0, val |-> val,
                  line |-> line, offset |-> Len(chunk.code),
                  index |-> Len(chunk.constants)])
    /\ UNCHANGED <<vm, ran, flintVars, scannerVars, parserVars, evaluatorVars>>

\* the VM is given the chunk: ip = chunk->code
RunBegin ==
    /\ vm.state = "idle"
    /\ vm' = [vm EXCEPT !.state = "running", !.ip = 0]
    /\ UNCHANGED <<chunk, written, emitted, ran, flintVars, scannerVars, parserVars, evaluatorVars>>

\* a read outside an array, or a pop of the empty stack: any outcome
Undefined ==
    \E r \in {"INTERPRET_OK", "INTERPRET_RUNTIME_ERROR", "crash"} :
        vm' = [vm EXCEPT !.state = "done", !.result = r, !.undefined = TRUE]

\* VM::binaryOp: the stack after it
binaryOp(stk, op(_, _)) ==
    LET b == stk[Len(stk)]
        a == stk[Len(stk) - 1]
    IN  Append(SubSeq(stk, 1, Len(stk) - 2), op(a, b))

\* VM::run, one turn of the decode loop
run ==
    /\ vm.state = "running"
    /\ LET code == chunk.code
           size == Len(vm.stack)
           instruction == code[vm.ip + 1]
           next == [vm EXCEPT !.ip = @ + 1]
       IN  IF vm.ip >= Len(code)
           THEN Undefined /\ UNCHANGED ran
           ELSE /\ ran' = Append(ran, [offset |-> vm.ip, instruction |-> instruction,
                                       stack |-> vm.stack])
                /\ CASE instruction = OpCode.OP_CONSTANT ->
                           IF \/ vm.ip + 1 >= Len(code)
                              \/ code[vm.ip + 2] >= Len(chunk.constants)
                           THEN Undefined
                           ELSE vm' = [vm EXCEPT
                                    !.ip = @ + 2,
                                    !.stack = Append(@,
                                        chunk.constants[code[vm.ip + 2] + 1])]
                       [] instruction = OpCode.OP_RETURN ->
                           IF size = 0 THEN Undefined
                           ELSE vm' = [next EXCEPT
                                    !.stack = SubSeq(@, 1, size - 1),
                                    !.out = Append(@, vm.stack[size]),
                                    !.state = "done",
                                    !.result = "INTERPRET_OK"]
                       [] instruction = ArithOpCode.OP_NEGATE ->
                           IF size = 0 THEN Undefined
                           ELSE vm' = [next EXCEPT
                                    !.stack[size] = negate(vm.stack[size])]
                       [] instruction = ArithOpCode.OP_ADD ->
                           IF size < 2 THEN Undefined
                           ELSE vm' = [next EXCEPT !.stack = binaryOp(@, plus)]
                       [] instruction = ArithOpCode.OP_SUBTRACT ->
                           IF size < 2 THEN Undefined
                           ELSE vm' = [next EXCEPT !.stack = binaryOp(@, minus)]
                       [] instruction = ArithOpCode.OP_MULTIPLY ->
                           IF size < 2 THEN Undefined
                           ELSE vm' = [next EXCEPT !.stack = binaryOp(@, multiplies)]
                       [] instruction = ArithOpCode.OP_DIVIDE ->
                           IF size < 2 THEN Undefined
                           ELSE vm' = [next EXCEPT !.stack = binaryOp(@, divides)]
                       [] OTHER -> vm' = next    \* the switch has no such case
    /\ UNCHANGED <<chunk, written, emitted, flintVars, scannerVars, parserVars, evaluatorVars>>

NextChunk ==
    \/ WriteChunk(ChunkBytes, 1..MaxLine)
    \/ WriteConstant({Double(1, 0, 1)}, 1..MaxLine)

SpecChunk == InitChunk /\ [][NextChunk]_vars

NextVM ==
    \/ WriteChunk(VMBytes, {1})
    \/ WriteConstant(Values, {1})
    \/ RunBegin
    \/ run

SpecVM == InitChunk /\ [][NextVM]_vars

(***************************************************************************)
(* Scanner.  A source is a sequence of characters; a position is counted   *)
(* from 0 as in the code.  The operators below work on s = [sc, errors]:   *)
(* the Scanner and the diagnostics reported so far.                        *)
(***************************************************************************)
Punctuation ==
    [c \in {"(", ")", "{", "}", ",", ".", "+", "-", ";", "*", "%", ":", "?"} |->
        CASE c = "(" -> "LEFT_PAREN"   [] c = ")" -> "RIGHT_PAREN"
          [] c = "{" -> "LEFT_BRACE"   [] c = "}" -> "RIGHT_BRACE"
          [] c = "," -> "COMMA"        [] c = "." -> "DOT"
          [] c = "+" -> "PLUS"         [] c = "-" -> "MINUS"
          [] c = ";" -> "SEMICOLON"    [] c = "*" -> "STAR"
          [] c = "%" -> "MODULO"       [] c = ":" -> "COLON"
          [] OTHER -> "QUESTION_MARK"]

Comparison ==
    [c \in {"!", "=", "<", ">"} |->
        CASE c = "!" -> <<"BANG_EQUAL", "BANG">>
          [] c = "=" -> <<"EQUAL_EQUAL", "EQUAL">>
          [] c = "<" -> <<"LESS_EQUAL", "LESS">>
          [] OTHER -> <<"GREATER_EQUAL", "GREATER">>]

\* Scanner::keywords: the type of a keyword is named by its text
keywords ==
    {<<"a", "n", "d">>, <<"o", "r">>, <<"i", "f">>, <<"e", "l", "s", "e">>,
     <<"t", "r", "u", "e">>, <<"f", "a", "l", "s", "e">>, <<"f", "o", "r">>,
     <<"w", "h", "i", "l", "e">>, <<"b", "r", "e", "a", "k">>,
     <<"c", "o", "n", "t", "i", "n", "u", "e">>, <<"f", "u", "n", "c">>,
     <<"n", "o", "t", "h", "i", "n", "g">>, <<"r", "e", "t", "u", "r", "n">>,
     <<"c", "l", "a", "s", "s">>, <<"s", "u", "p", "e", "r">>,
     <<"t", "h", "i", "s">>, <<"l", "e", "t">>}

\* the escapes Scanner::string knows, and the characters they stand for
Escapes ==
    [c \in {"n", "t", "r", "\"", "\\"} |->
        CASE c = "n" -> "\n" [] c = "t" -> "\t" [] c = "r" -> "\r" [] OTHER -> c]

isAtEnd(sc) == sc.current >= Len(sc.source)
isDigit(c) == c \in {"0", "1", "2", "3", "4", "5", "6", "7", "8", "9"}
isAlpha(c) ==
    c \in {"a", "b", "c", "d", "e", "f", "g", "h", "i", "j", "k", "l", "m",
            "n", "o", "p", "q", "r", "s", "t", "u", "v", "w", "x", "y", "z",
            "A", "B", "C", "D", "E", "F", "G", "H", "I", "J", "K", "L", "M",
            "N", "O", "P", "Q", "R", "S", "T", "U", "V", "W", "X", "Y", "Z", "_"}
isAlphaNumeric(c) == isAlpha(c) \/ isDigit(c)

\* the character '\0' that peek and peekNext give at the end of the source
NUL == "NUL"

\* source.at(i)
At(sc, i) == sc.source[i + 1]
peek(sc) == IF isAtEnd(sc) THEN NUL ELSE At(sc, sc.current)
peekNext(sc) ==
    IF sc.current + 1 >= Len(sc.source) THEN NUL ELSE At(sc, sc.current + 1)

\* Scanner::advance: the scanner after it (the character is At(sc, sc.current))
advance(s) == [s EXCEPT !.sc.current = @ + 1]

\* Scanner::match: the scanner after it; it matched iff current moved
match(s, expected) ==
    IF isAtEnd(s.sc) \/ At(s.sc, s.sc.current) # expected THEN s ELSE advance(s)

\* Flint::error(line, message)
error(s, line, message) ==
    [s EXCEPT !.errors = Append(@, [line |-> line, message |-> message])]

\* Scanner::addToken(type, literal)
addToken(s, type, literal) ==
    [s EXCEPT !.sc.tokens =
        Append(@, [type |-> type,
                   lexeme |-> SubSeq(s.sc.source, s.sc.start + 1, s.sc.current),
                   literal |-> literal, line |-> s.sc.line])]

\* the while loop of Scanner::string: [s, value, returned]; returned: the
\* loop was left by a return
RECURSIVE stringLoop(_, _)
stringLoop(s, value) ==
    IF isAtEnd(s.sc) THEN [s |-> s, value |-> value, returned |-> FALSE]
    ELSE LET c == At(s.sc, s.sc.current)
             s1 == advance(s)
         IN  IF c = "\""
             THEN [s |-> s1, value |-> value, returned |-> FALSE]
             ELSE IF c = "\\"
             THEN IF isAtEnd(s1.sc)
                  THEN [s |-> s1, value |-> value, returned |-> FALSE]
                  ELSE LET next == At(s1.sc, s1.sc.current)
                           s2 == advance(s1)
                       IN  IF next \in DOMAIN Escapes
                           THEN stringLoop(s2, Append(value, Escapes[next]))
                           ELSE [s |-> error(s2, s2.sc.line, "Invalid escape"),
                                 value |-> value, returned |-> TRUE]
             ELSE IF c = "\n"
             THEN LET s2 == [s1 EXCEPT !.sc.line = @ + 1]
                  IN  [s |-> error(s2, s2.sc.line,
                                   "Unterminated string (newline encountered)."),
                       value |-> value, returned |-> TRUE]
             ELSE stringLoop(s1, Append(value, c))

\* Scanner::string
string(s) ==
    LET r == stringLoop(s, <<>>)
    IN  IF r.returned THEN r.s
        ELSE IF isAtEnd(r.s.sc) /\ At(r.s.sc, r.s.sc.current - 1) # "\""
        THEN error(r.s, r.s.sc.line, "Unterminated string.")
        ELSE addToken(r.s, "STRING", r.value)

\* Scanner::blockComments, the loop
RECURSIVE blockCommentsLoop(_, _)
blockCommentsLoop(s, nestedLevels) ==
    IF ~(nestedLevels > 0 /\ ~isAtEnd(s.sc))
    THEN (IF nestedLevels > 0
          THEN error(s, s.sc.line, "Unterminated block comment.") ELSE s)
    ELSE IF peek(s.sc) = "/" /\ peekNext(s.sc) = "*"
    THEN blockCommentsLoop(advance(advance(s)), nestedLevels + 1)
    ELSE IF peek(s.sc) = "*" /\ peekNext(s.sc) = "/"
    THEN blockCommentsLoop(advance(advance(s)), nestedLevels - 1)
    ELSE blockCommentsLoop(
             advance(IF peek(s.sc) = "\n" THEN [s EXCEPT !.sc.line = @ + 1] ELSE s),
             nestedLevels)

blockComments(s) == blockCommentsLoop(s, 1)

\* while (P(peek())) advance();
\* (the scanner stops at the first position whose character P refuses; peek
\* gives NUL at the end of the source, which no P used here accepts)
advanceWhile(s, P(_)) ==
    LET n == Len(s.sc.source)
        stop == CHOOSE j \in s.sc.current..n :
                    /\ \A i \in s.sc.current..(j - 1) : P(At(s.sc, i))
                    /\ j = n \/ ~P(At(s.sc, j))
    IN  [s EXCEPT !.sc.current = stop]

\* <cfloat>: the largest power of ten a double holds
DBL_MAX_10_EXP == 308

\* the digits of text before its '.', without the leading zeros
IntegerDigits(text) ==
    LET dots == {i \in 1..Len(text) : text[i] = "."}
        last == IF dots = {} THEN Len(text)
                ELSE (CHOOSE i \in dots : \A j \in dots : i <= j) - 1
        nonzero == {i \in 1..last : text[i] # "0"}
    IN  IF nonzero = {} THEN <<>>
        ELSE SubSeq(text, CHOOSE i \in nonzero : \A j \in nonzero : i <= j, last)

\* std::stod(text) throws std::out_of_range: the value is above DBL_MAX.  A
\* text of more than DBL_MAX_10_EXP + 1 integer digits is; of the texts with
\* exactly that many digits those that begin with 1 and a digit below 7 are not
stodOutOfRange(text) ==
    \/ Len(IntegerDigits(text)) > DBL_MAX_10_EXP + 1
    \/ /\ Len(IntegerDigits(text)) = DBL_MAX_10_EXP + 1
       /\ ~(IntegerDigits(text)[1] = "1"
            /\ IntegerDigits(text)[2] \in {"0", "1", "2", "3", "4", "5", "6"})

\* Scanner::number; the literal is the double std::stod makes of the text
number(s) ==
    LET s1 == advanceWhile(s, isDigit)
        s2 == IF peek(s1.sc) = "." /\ isDigit(peekNext(s1.sc))
              THEN advanceWhile(advance(s1), isDigit) ELSE s1
        text == SubSeq(s2.sc.source, s2.sc.start + 1, s2.sc.current)
    IN  IF stodOutOfRange(text) THEN [s2 EXCEPT !.sc.threw = TRUE]
        ELSE addToken(s2, "NUMBER", text)

\* Scanner::identifier
identifier(s) ==
    LET s1 == advanceWhile(s, isAlphaNumeric)
        text == SubSeq(s1.sc.source, s1.sc.start + 1, s1.sc.current)
    IN  addToken(s1, IF text \in keywords THEN text ELSE "IDENTIFIER", <<>>)

\* Scanner::scanToken
scanToken(s) ==
    LET c == At(s.sc, s.sc.current)
        s1 == advance(s)
        InComment(x) == x # "\n" /\ x # NUL
    IN  CASE c \in DOMAIN Punctuation -> addToken(s1, Punctuation[c], <<>>)
          [] c \in {"&", "|"} ->
                LET s2 == match(s1, c)
                IN  IF s2 # s1
                    THEN error(s2, s2.sc.current - 2, "Use the keyword instead")
                    ELSE error(s1, s1.sc.current - 1, "Unexpected character")
          [] c \in DOMAIN Comparison ->
                LET s2 == match(s1, "=")
                IN  addToken(s2, Comparison[c][IF s2 # s1 THEN 1 ELSE 2], <<>>)
          [] c = "/" ->
                IF match(s1, "/") # s1
                THEN advanceWhile(match(s1, "/"), InComment)
                ELSE IF match(s1, "*") # s1
                THEN blockComments(match(s1, "*"))
                ELSE addToken(s1, "SLASH", <<>>)
          [] c = "\"" -> string(s1)
          [] c \in {" ", "\r", "\t"} -> s1
          [] c = "\n" -> [s1 EXCEPT !.sc.line = @ + 1]
          [] OTHER ->
                IF isDigit(c) THEN number(s1)
                ELSE IF isAlpha(c) THEN identifier(s1)
                ELSE error(s1, s1.sc.line, "Unexpected character.")

Alphabet ==
    {"(", ")", "{", "}", "[", "]", ",", ".", ";", ":", "?",
     "\"", "\\", "\n", " ", "n", "i", "f", "1", "/", "*", "&"}

\* a number literal of one digit more than the largest double has
LongNumber == [i \in 1..(DBL_MAX_10_EXP + 2) |-> "1"]

Sources == UNION {[1..n -> Alphabet] : n \in 0..MaxSource} \cup {LongNumber}

InitScanner ==
    /\ FlintIdle /\ BytecodeIdle /\ ParserIdle /\ EvaluatorIdle
    /\ scanner \in {NewScanner(text) : text \in Sources}
    /\ reported = <<>>
    /\ scanned = <<>>

\* Scanner::scanTokens, one turn of the while loop
ScanOne ==
    /\ ~scanner.returned /\ ~scanner.threw /\ ~isAtEnd(scanner)
    /\ LET s == [sc |-> [scanner EXCEPT !.start = scanner.current],
                 errors |-> reported]
           after == scanToken(s)
       IN  /\ scanner' = after.sc
           /\ reported' = after.errors
           /\ scanned' = Append(scanned,
                  [c |-> At(scanner, scanner.current), start |-> scanner.current,
                   line |-> scanner.line,
                   current |-> after.sc.current,
                   tokens |-> SubSeq(after.sc.tokens, Len(scanner.tokens) + 1,
                                     Len(after.sc.tokens)),
                   errors |-> SubSeq(after.errors, Len(reported) + 1,
                                     Len(after.errors))])
    /\ UNCHANGED <<flintVars, bytecodeVars, parserVars, evaluatorVars>>

\* Scanner::scanTokens after the loop: the END_OF_FILE token
ScanEnd ==
    /\ ~scanner.returned /\ ~scanner.threw /\ isAtEnd(scanner)
    /\ scanner' = [scanner EXCEPT
           !.tokens = Append(@, [type |-> "END_OF_FILE", lexeme |-> <<>>,
                                 literal |-> <<>>, line |-> scanner.line]),
           !.returned = TRUE]
    /\ UNCHANGED <<reported, scanned, flintVars, bytecodeVars, parserVars, evaluatorVars>>

NextScanner == ScanOne \/ ScanEnd

SpecScanner == InitScanner /\ [][NextScanner]_vars

(***************************************************************************)
(* Parser.  A token is [type, lexeme]; a position is counted from 0 as in  *)
(* the code.  The operators below work on p = [tokens, current, errors,    *)
(* log, diverged]: the Parser, the Flint::error calls it made, the history *)
(* of what it did, and whether one of its loops has stopped moving.  A     *)
(* parsing function gives [p, v, ok]: the parser after it, the node it     *)
(* returned, and whether it returned (ok) or threw a ParseError.           *)
(***************************************************************************)
Lexeme(type) ==
    CASE type = "IDENTIFIER" -> "a"      [] type = "NUMBER" -> "1"
      [] type = "STRING" -> "s"          [] type = "EQUAL" -> "="
      [] type = "EQUAL_EQUAL" -> "=="    [] type = "BANG_EQUAL" -> "!="
      [] type = "LESS" -> "<"            [] type = "LESS_EQUAL" -> "<="
      [] type = "GREATER" -> ">"         [] type = "GREATER_EQUAL" -> ">="
      [] type = "PLUS" -> "+"            [] type = "MINUS" -> "-"
      [] type = "STAR" -> "*"            [] type = "SLASH" -> "/"
      [] type = "MODULO" -> "%"          [] type = "BANG" -> "!"
      [] type = "COMMA" -> ","           [] type = "DOT" -> "."
      [] type = "SEMICOLON" -> ";"       [] type = "COLON" -> ":"
      [] type = "QUESTION_MARK" -> "?"   [] type = "LEFT_PAREN" -> "("
      [] type = "RIGHT_PAREN" -> ")"     [] type = "LEFT_BRACE" -> "{"
      [] type = "RIGHT_BRACE" -> "}"     [] type = "LEFT_BRACKET" -> "["
      [] type = "RIGHT_BRACKET" -> "]"   [] type = "END_OF_FILE" -> ""
      [] type = "AND" -> "and"           [] type = "OR" -> "or"
      [] type = "CLASS" -> "class"       [] type = "FUNC" -> "func"
      [] type = "LET" -> "let"           [] type = "IF" -> "if"
      [] type = "ELSE" -> "else"         [] type = "FOR" -> "for"
      [] type = "WHILE" -> "while"       [] type = "RETURN" -> "return"
      [] type = "BREAK" -> "break"       [] type = "CONTINUE" -> "continue"
      [] type = "TRUE" -> "true"         [] type = "FALSE" -> "false"
      [] type = "NOTHING" -> "nothing"   [] type = "THIS" -> "this"
      [] OTHER -> "super"

Token(type) == [type |-> type, lexeme |-> Lexeme(type)]

\* the nodes of ExpressionNode.h the interpreter above has no use of
Logical(left, op, right) ==
    [kind |-> "Logical", left |-> left, op |-> op, right |-> right]
Unary(op, right) == [kind |-> "Unary", op |-> op, right |-> right]
Conditional(condition, left, right) ==
    [kind |-> "Conditional", condition |-> condition, left |-> left, right |-> right]
Array(elements) == [kind |-> "Array", elements |-> elements]
GetIndex(array, index, bracket) ==
    [kind |-> "GetIndex", array |-> array, index |-> index, bracket |-> bracket]
SetIndex(array, index, value, bracket) ==
    [kind |-> "SetIndex", array |-> array, index |-> index, value |-> value,
     bracket |-> bracket]

\* a parsing function returned v / threw a ParseError
Returned(p, v) == [p |-> p, v |-> v, ok |-> TRUE]
Thrown(p) == [p |-> p, v |-> Null, ok |-> FALSE]

\* the statements after a call that may throw: they run on what the call
\* returned (got), and not at all if it threw
andThen(r, next(_)) == IF ~r.ok THEN r ELSE next(r)

\* Parser::peek, Parser::previous, Parser::isAtEnd, Parser::check
parserPeek(p) == p.tokens[p.current + 1]
previous(p) == p.tokens[p.current]
parserIsAtEnd(p) == parserPeek(p).type = "END_OF_FILE"
check(p, type) == ~parserIsAtEnd(p) /\ parserPeek(p).type = type

\* Parser::advance: the parser after it
parserAdvance(p) == IF ~parserIsAtEnd(p) THEN [p EXCEPT !.current = @ + 1] ELSE p

\* Parser::match: the parser after it; it matched iff current moved
parserMatch(p, types) ==
    IF \E t \in types : check(p, t) THEN parserAdvance(p) ELSE p

\* operator+ of std::string, on the strings the parser puts together
Text(parts) ==
    CASE parts = <<"Missing left-hand operand before '", ",", "'.">> ->
            "Missing left-hand operand before ','."
      [] parts = <<"Missing left-hand operand before '", "<", "'.">> ->
            "Missing left-hand operand before '<'."
      [] parts = <<"Missing left-hand operand before '", "<=", "'.">> ->
            "Missing left-hand operand before '<='."
      [] parts = <<"Missing left-hand operand before '", ">", "'.">> ->
            "Missing left-hand operand before '>'."
      [] parts = <<"Missing left-hand operand before '", ">=", "'.">> ->
            "Missing left-hand operand before '>='."
      [] parts = <<"Missing left-hand operand before '", "*", "'.">> ->
            "Missing left-hand operand before '*'."
      [] parts = <<"Missing left-hand operand before '", "/", "'.">> ->
            "Missing left-hand operand before '/'."
      [] parts = <<"Missing left-hand operand before '", "%", "'.">> ->
            "Missing left-hand operand before '%'."
      [] parts = <<"Expected ", "function", " name.">> -> "Expected function name."
      [] parts = <<"Expected '(' after ", "function", " name.">> ->
            "Expected '(' after function name."
      [] parts = <<"Expected '{' to start ", "function", " body.">> ->
            "Expected '{' to start function body."
      [] parts = <<"Expected ", "method", " name.">> -> "Expected method name."
      [] parts = <<"Expected '(' after ", "method", " name.">> -> "Expected '(' after method name."
      [] parts = <<"Expected '{' to start ", "method", " body.">> ->
            "Expected '{' to start method body."
      [] parts = <<"Expected '{' to start ", "getter/setter", " body.">> ->
            "Expected '{' to start getter/setter body."
      [] parts = <<"Expected '(' after '", "if", "'.">> -> "Expected '(' after 'if'."
      [] parts = <<"Expected ')' after ", "if", " condition.">> ->
            "Expected ')' after if condition."
      [] parts = <<"Expected '(' after '", "while", "'.">> -> "Expected '(' after 'while'."
      [] parts = <<"Expected ')' after ", "while", " condition.">> ->
            "Expected ')' after while condition."

\* Parser::error: Flint::error(token, message); at is the position of token
parserError(p, at, message) ==
    [p EXCEPT !.errors = Append(@, [at |-> at, message |-> message])]

\* Parser::consume
consume(p, type, message) ==
    IF check(p, type) THEN Returned(parserAdvance(p), parserPeek(p))
    ELSE Thrown(parserError(p, p.current, message))

\* the history of the parser
Logged(p, event) == [p EXCEPT !.log = Append(@, event)]

RECURSIVE parserCall(_, _, _)

\* The functions of the expression grammar, each calling the next one first:
\* expression = comma, assignment, conditional, logicalOr, logicalAnd,
\* equality, comparison, term, factor, unary, and then call.  parseFrom(level,
\* p), below, is the call of the function of that level: it runs the chain of
\* calls down from it and back without nesting them.
Level ==
    [comma |-> 1, assignment |-> 2, conditional |-> 3, logicalOr |-> 4,
     logicalAnd |-> 5, equality |-> 6, comparison |-> 7, term |-> 8,
     factor |-> 9, unary |-> 10, call |-> 11]

comma(p) == parserCall("parseFrom", p, Level.comma)
expression(p) == comma(p)
assignment(p) == parserCall("parseFrom", p, Level.assignment)
conditional(p) == parserCall("parseFrom", p, Level.conditional)
logicalOr(p) == parserCall("parseFrom", p, Level.logicalOr)
logicalAnd(p) == parserCall("parseFrom", p, Level.logicalAnd)
equality(p) == parserCall("parseFrom", p, Level.equality)
comparison(p) == parserCall("parseFrom", p, Level.comparison)
term(p) == parserCall("parseFrom", p, Level.term)
factor(p) == parserCall("parseFrom", p, Level.factor)
unary(p) == parserCall("parseFrom", p, Level.unary)

\* do { items.push_back(item()); } while (match({COMMA})); with the report
\* of the 256th item
commaList(p0, item(_), tooMany) ==
    LET RECURSIVE loop(_, _)
        loop(p, items) ==
            LET p1 == IF tooMany # "" /\ Len(items) >= 255
                      THEN parserError(p, p.current, tooMany) ELSE p
                r == item(p1)
            IN  andThen(r, LAMBDA got :
                    IF parserMatch(got.p, {"COMMA"}) # got.p
                    THEN loop(parserMatch(got.p, {"COMMA"}), Append(items, got.v))
                    ELSE Returned(got.p, Append(items, got.v)))
    IN  loop(p0, <<>>)

\* a parameter of a function: consume(IDENTIFIER, "Expected parameter name.")
parameter(p) ==
    LET r == consume(p, "IDENTIFIER", "Expected parameter name.")
    IN  IF r.ok THEN Returned(r.p, r.v.lexeme) ELSE r

\* the parameter list and the body of Parser::lambda and of
\* Parser::parseFuncDeclaration, from the '(' on: [params, body]
parametersAndBody(p, afterName, beforeBody) ==
    LET r1 == consume(p, "LEFT_PAREN", afterName)
        r2 == andThen(r1, LAMBDA got :
                  IF check(got.p, "RIGHT_PAREN") THEN Returned(got.p, <<>>)
                  ELSE commaList(got.p, parameter,
                                 "Cannot have more than 255 parameters."))
        r3 == andThen(r2, LAMBDA got :
                  consume(got.p, "RIGHT_PAREN", "Expected ')' after parameters."))
        r4 == andThen(r3, LAMBDA got :
                  consume(got.p, "LEFT_BRACE", beforeBody))
        r5 == andThen(r4, LAMBDA got :
                  parserCall("blockStatement", got.p, 0))
    IN  andThen(r5, LAMBDA got :
            Returned(got.p, [params |-> r2.v, body |-> got.v]))

\* Parser::lambda
lambda(p) ==
    LET r == parametersAndBody(p, "Expected '(' after 'func'.",
                               "Expected '{' before lambda body.")
    IN  andThen(r, LAMBDA got :
            Returned(got.p, Lambda(got.v.params, got.v.body)))

\* Parser::primary
primary(p) ==
    LET t == parserPeek(p).type
        p1 == parserAdvance(p)
    IN  CASE t = "FALSE" -> Returned(p1, Literal(Bool(FALSE)))
          [] t = "TRUE" -> Returned(p1, Literal(Bool(TRUE)))
          [] t = "NOTHING" -> Returned(p1, Literal(Monostate))
          [] t = "NUMBER" -> Returned(p1, Literal(Val("double", parserPeek(p).lexeme)))
          [] t = "STRING" -> Returned(p1, Literal(Val("string", parserPeek(p).lexeme)))
          [] t = "FUNC" -> parserCall("lambda", p1, 0)
          [] t = "THIS" -> Returned(p1, This)
          [] t = "SUPER" ->
                LET r1 == consume(p1, "DOT", "Expected '.' after 'super'.")
                    r2 == andThen(r1, LAMBDA got :
                              consume(got.p, "IDENTIFIER",
                                     "Expected an identifier for super class method name after '.'"))
                IN  andThen(r2, LAMBDA got :
                        Returned(got.p, SuperExpr(got.v.lexeme)))
          [] t = "LEFT_BRACKET" ->
                LET r1 == IF check(p1, "RIGHT_BRACKET") THEN Returned(p1, <<>>)
                          ELSE commaList(p1, assignment, "")
                    r2 == andThen(r1, LAMBDA got :
                              consume(got.p, "RIGHT_BRACKET",
                                           "Expected ']' at the end of array elements."))
                IN  andThen(r2, LAMBDA got :
                        Returned(got.p, Array(r1.v)))
          [] t = "IDENTIFIER" -> Returned(p1, Variable(parserPeek(p).lexeme))
          [] t = "LEFT_PAREN" ->
                LET r1 == expression(p1)
                    r2 == andThen(r1, LAMBDA got :
                              consume(got.p, "RIGHT_PAREN",
                                           "Expected ')' after expression."))
                IN  andThen(r2, LAMBDA got :
                        Returned(got.p, Grouping(r1.v)))
          [] OTHER -> Thrown(parserError(p, p.current, "Expected an expression."))

\* Parser::finishCall
finishCall(p, callee) ==
    LET r1 == IF check(p, "RIGHT_PAREN") THEN Returned(p, <<>>)
              ELSE commaList(p, assignment, "Cannot have more than 255 arguments.")
        r2 == andThen(r1, LAMBDA got :
                  consume(got.p, "RIGHT_PAREN", "Expected ')' after arguments."))
    IN  andThen(r2, LAMBDA got :
            Returned(got.p, Call(callee, r1.v)))

\* Parser::call
call(p) ==
    LET RECURSIVE loop(_)
        loop(r) ==
            andThen(r, LAMBDA got2 :
                IF check(got2.p, "LEFT_PAREN")
                THEN loop(finishCall(parserAdvance(got2.p), got2.v))
                ELSE IF check(got2.p, "DOT")
                THEN LET name == consume(parserAdvance(got2.p), "IDENTIFIER",
                                         "Expected property name after '.'.")
                     IN  andThen(name, LAMBDA got :
                             loop(Returned(got.p, Get(got2.v, got.v.lexeme))))
                ELSE IF check(got2.p, "LEFT_BRACKET")
                THEN LET index == expression(parserAdvance(got2.p))
                         close == andThen(index, LAMBDA got :
                                      consume(got.p, "RIGHT_BRACKET",
                                                   "Expected ']' after index."))
                     IN  andThen(close, LAMBDA got :
                             loop(Returned(got.p, GetIndex(got2.v, index.v, got2.p.current))))
                ELSE got2)
        r == loop(parserCall("primary", p, 0))
    IN  andThen(r, LAMBDA got :
            IF \E t \in {"IDENTIFIER", "STRING", "NUMBER"} : check(got.p, t)
            THEN Thrown(parserError(got.p, got.p.current, "Expected '(' after function name."))
            ELSE got)

\* while (match(types)) { op = previous(); right = operand(); expr = make },
\* after the first operand expr has been parsed
leftAssociative(expr, types, operand(_), make(_, _, _)) ==
    LET RECURSIVE loop(_)
        loop(r) ==
            IF \A t \in types : ~check(r.p, t) THEN r
            ELSE LET right == operand(parserAdvance(r.p))
                 IN  andThen(right, LAMBDA got :
                         loop(Returned(got.p,
                                            make(r.v, parserPeek(r.p).lexeme, got.v))))
    IN  loop(expr)

\* the operand parsed after the report of a missing left-hand operand
missingLeft(p, operand(_)) ==
    LET p1 == parserError(parserAdvance(p), p.current,
                          Text(<<"Missing left-hand operand before '",
                            parserPeek(p).lexeme, "'.">>))
        r == operand(p1)
    IN  [r EXCEPT !.p = Logged(@, [e |-> "operand", op |-> p.current,
                                   from |-> p1.current, ok |-> r.ok])]

\* Parser::assignment looking through parentheses for the target
assignmentOf_ThroughGrouping(expr) ==
    IF ~check(expr.p, "EQUAL") THEN expr
    ELSE LET equals == expr.p.current
             value == assignment(parserAdvance(expr.p))
             target == IF expr.v.kind = "Grouping" THEN expr.v.expression
                       ELSE expr.v
             made(p1, node) ==
                 Returned(Logged(p1, [e |-> "assign", at |-> equals,
                                      target |-> expr.v, made |-> node]),
                          node)
         IN  andThen(value, LAMBDA got :
                 IF target.kind = "Variable"
                 THEN made(got.p, Assignment(target.name, got.v))
                 ELSE IF target.kind = "Get"
                 THEN made(got.p, Set(target.object, target.name, got.v))
                 ELSE IF target.kind = "GetIndex"
                 THEN made(got.p, SetIndex(target.array, target.index, got.v,
                                             target.bracket))
                 ELSE Thrown(Logged(parserError(got.p, equals,
                                                "Invalid assignment target."),
                                    [e |-> "assign", at |-> equals,
                                     target |-> expr.v, made |-> Null])))

\* Parser::assignment, after expr = conditional()
assignmentOf(expr) ==
    IF ~check(expr.p, "EQUAL") THEN expr
    ELSE LET equals == expr.p.current
             value == assignment(parserAdvance(expr.p))
             made(p1, node) ==
                 Returned(Logged(p1, [e |-> "assign", at |-> equals,
                                      target |-> expr.v, made |-> node]),
                          node)
         IN  andThen(value, LAMBDA got :
                 IF expr.v.kind = "Variable"
                 THEN made(got.p, Assignment(expr.v.name, got.v))
                 ELSE IF expr.v.kind = "Get"
                 THEN made(got.p, Set(expr.v.object, expr.v.name, got.v))
                 ELSE IF expr.v.kind = "GetIndex"
                 THEN made(got.p, SetIndex(expr.v.array, expr.v.index, got.v,
                                             expr.v.bracket))
                 ELSE Thrown(Logged(parserError(got.p, equals,
                                                "Invalid assignment target."),
                                    [e |-> "assign", at |-> equals,
                                     target |-> expr.v, made |-> Null])))

\* Parser::conditional, after expr = logicalOr()
conditionalOf(expr) ==
    IF ~check(expr.p, "QUESTION_MARK") THEN expr
    ELSE LET r1 == conditional(parserAdvance(expr.p))
             r2 == andThen(r1, LAMBDA got :
                       consume(got.p, "COLON", "Expected ':' after then branch."))
             r3 == andThen(r2, LAMBDA got :
                       conditional(got.p))
         IN  andThen(r3, LAMBDA got :
                 Returned(got.p, Conditional(expr.v, r1.v, got.v)))

\* the function of a level after its first operand has returned expr:
\* Parser::comma, assignment, conditional, logicalOr, logicalAnd, equality,
\* comparison, term, factor; Parser::unary returns what Parser::call returned
afterOperand(level, expr) ==
    CASE level = Level.comma ->
            leftAssociative(expr, {"COMMA"}, assignment, Binary)
      [] level = Level.assignment -> assignmentOf(expr)
      [] level = Level.conditional -> conditionalOf(expr)
      [] level = Level.logicalOr -> leftAssociative(expr, {"OR"}, logicalAnd, Logical)
      [] level = Level.logicalAnd -> leftAssociative(expr, {"AND"}, equality, Logical)
      [] level = Level.equality ->
            leftAssociative(expr, {"EQUAL_EQUAL", "BANG_EQUAL"}, comparison, Binary)
      [] level = Level.comparison ->
            leftAssociative(expr, {"LESS", "LESS_EQUAL", "GREATER", "GREATER_EQUAL"},
                            term, Binary)
      [] level = Level.term -> leftAssociative(expr, {"PLUS", "MINUS"}, factor, Binary)
      [] level = Level.factor ->
            leftAssociative(expr, {"STAR", "SLASH", "MODULO"}, unary, Binary)
      [] level = Level.unary -> expr

\* the function, from level down, that does not call the next one first on
\* the token at p: Parser::comma on ',', Parser::comparison on a comparison
\* operator, Parser::factor on '*', '/', '%', Parser::unary on '!' and '-';
\* otherwise the calls reach Parser::call
turnsAt(level, p) ==
    LET t == parserPeek(p).type
    IN  IF level <= Level.comma /\ t = "COMMA" THEN Level.comma
        ELSE IF /\ level <= Level.comparison
                /\ t \in {"LESS", "LESS_EQUAL", "GREATER", "GREATER_EQUAL"}
        THEN Level.comparison
        ELSE IF level <= Level.factor /\ t \in {"STAR", "SLASH", "MODULO"}
        THEN Level.factor
        ELSE IF t \in {"BANG", "MINUS"} THEN Level.unary
        ELSE Level.call

\* what that function returns: the operand after the report of the missing
\* left-hand operand, the Unary of Parser::unary, or what Parser::call returns
turn(level, p) ==
    CASE level = Level.comma -> missingLeft(p, assignment)
      [] level = Level.comparison -> missingLeft(p, term)
      [] level = Level.factor -> missingLeft(p, unary)
      [] level = Level.unary ->
            LET right == unary(parserAdvance(p))
            IN  andThen(right, LAMBDA got :
                    Returned(got.p, Unary(parserPeek(p).lexeme, got.v)))
      [] OTHER -> parserCall("call", p, 0)

\* the functions above the one that turned, innermost first, each going on
\* after its first operand unless that threw
parseFrom(level, p) ==
    LET at == turnsAt(level, p)
        RECURSIVE goOn(_, _)
        goOn(l, expr) ==
            IF l < level \/ ~expr.ok THEN expr
            ELSE goOn(l - 1, afterOperand(l, expr))
        first == turn(at, p)
    IN  andThen(first, LAMBDA got :
            goOn(at - 1, got))

\* Parser::expressionStatement
expressionStatement(p) ==
    LET r1 == expression(p)
        r2 == andThen(r1, LAMBDA got :
                  consume(got.p, "SEMICOLON", "Expected ';' after expression."))
    IN  andThen(r2, LAMBDA got :
            Returned(got.p, ExpressionStmt(r1.v)))

\* one declaration of Parser::parseVarDeclaration
declaration(p) ==
    LET name == consume(p, "IDENTIFIER", "Expect variable name.")
        init == andThen(name, LAMBDA got :
                    IF check(got.p, "EQUAL")
                    THEN assignment(parserAdvance(got.p))
                    ELSE Returned(got.p, Null))
    IN  andThen(init, LAMBDA got :
            Returned(got.p, Decl(name.v.lexeme, got.v)))

\* Parser::parseVarDeclaration
parseVarDeclaration(p) ==
    LET r1 == commaList(p, declaration, "")
        r2 == andThen(r1, LAMBDA got :
                  consume(got.p, "SEMICOLON",
                               "Expect ';' after variable declaration."))
    IN  andThen(r2, LAMBDA got :
            Returned(got.p, LetStmt(r1.v)))

\* Parser::parseFuncDeclaration
parseFuncDeclaration(p, kind) ==
    LET name == consume(p, "IDENTIFIER", Text(<<"Expected ", kind, " name.">>))
        isGetter == name.ok /\ ~check(name.p, "LEFT_PAREN")
        r == andThen(name, LAMBDA got2 :
                 IF isGetter
                 THEN LET r1 == consume(got2.p, "LEFT_BRACE",
                                        Text(<<"Expected '{' to start ", "getter/setter",
                                          " body.">>))
                          r2 == andThen(r1, LAMBDA got :
                                    parserCall("blockStatement", got.p, 0))
                      IN  andThen(r2, LAMBDA got :
                              Returned(got.p, [params |-> <<>>, body |-> got.v]))
                 ELSE parametersAndBody(got2.p, Text(<<"Expected '(' after ", kind, " name.">>),
                                        Text(<<"Expected '{' to start ", kind, " body.">>)))
    IN  andThen(r, LAMBDA got :
            Returned(got.p, FunctionStmt(name.v.lexeme, got.v.params, got.v.body, isGetter)))

\* the while loop of Parser::parseClassDeclaration: [instanceMethods,
\* classMethods]
classBody(p0) ==
    LET RECURSIVE loop(_, _, _)
        loop(p, instanceMethods, classMethods) ==
            IF check(p, "RIGHT_BRACE") \/ parserIsAtEnd(p)
            THEN Returned(p, [instanceMethods |-> instanceMethods,
                              classMethods |-> classMethods])
            ELSE LET static == check(p, "CLASS")
                     method(r) ==
                         LET p1 == Logged(r.p, [e |-> "loop", loop |-> "class",
                                                before |-> p.current,
                                                after |-> r.p.current])
                         IN  IF ~r.ok THEN r
                             ELSE IF r.p.current = p.current
                             THEN Thrown([p1 EXCEPT !.diverged = TRUE])
                             ELSE IF static
                             THEN loop(p1, instanceMethods, Append(classMethods, r.v))
                             ELSE loop(p1, Append(instanceMethods, r.v), classMethods)
                 IN  method(parseFuncDeclaration(parserMatch(p, {"CLASS"}), "method"))
    IN  loop(p0, <<>>, <<>>)

\* Parser::parseClassDeclaration
parseClassDeclaration(p) ==
    LET name == consume(p, "IDENTIFIER", "Expected an identifier for class name.")
        super == andThen(name, LAMBDA got2 :
                     IF check(got2.p, "LESS")
                     THEN LET r == consume(parserAdvance(got2.p), "IDENTIFIER",
                                      "Expected an identifier for super class name.")
                          IN  andThen(r, LAMBDA got :
                                  Returned(got.p, Variable(got.v.lexeme)))
                     ELSE Returned(got2.p, Null))
        open == andThen(super, LAMBDA got :
                    consume(got.p, "LEFT_BRACE",
                                 "Expected '{' at the start of class body."))
        body == andThen(open, LAMBDA got :
                    classBody(got.p))
        close == andThen(body, LAMBDA got :
                     consume(got.p, "RIGHT_BRACE",
                                  "Expected '}' at the end of class body."))
    IN  andThen(close, LAMBDA got :
            Returned(got.p, ClassStmt(name.v.lexeme, super.v,
                                             body.v.instanceMethods, body.v.classMethods)))

\* '(' condition ')' of Parser::ifStatement and Parser::whileStatement
parenthesized(p, keyword) ==
    LET r1 == consume(p, "LEFT_PAREN", Text(<<"Expected '(' after '", keyword, "'.">>))
        r2 == andThen(r1, LAMBDA got :
                  expression(got.p))
        r3 == andThen(r2, LAMBDA got :
                  consume(got.p, "RIGHT_PAREN", Text(<<"Expected ')' after ", keyword, " condition.">>)))
    IN  andThen(r3, LAMBDA got :
            Returned(got.p, r2.v))

\* Parser::ifStatement
ifStatement(p) ==
    LET condition == parenthesized(p, "if")
        thenBranch == andThen(condition, LAMBDA got :
                          parserCall("parseStatement", got.p, 0))
        elseBranch == andThen(thenBranch, LAMBDA got :
                          IF check(got.p, "ELSE")
                          THEN parserCall("parseStatement", parserAdvance(got.p), 0)
                          ELSE Returned(got.p, Null))
    IN  andThen(elseBranch, LAMBDA got :
            Returned(got.p, IfStmt(condition.v, thenBranch.v, got.v)))

\* Parser::whileStatement
whileStatement(p) ==
    LET condition == parenthesized(p, "while")
        body == andThen(condition, LAMBDA got :
                    parserCall("parseStatement", got.p, 0))
    IN  andThen(body, LAMBDA got :
            Returned(got.p, WhileStmt(condition.v, got.v)))

\* Parser::returnStatement
returnStatement(p) ==
    LET value == IF ~check(p, "SEMICOLON") THEN expression(p) ELSE Returned(p, Null)
        r == andThen(value, LAMBDA got :
                 consume(got.p, "SEMICOLON", "Expected ';' after return value."))
    IN  andThen(r, LAMBDA got :
            Returned(got.p, ReturnStmt(value.v)))

\* Parser::breakStatement
breakStatement(p) ==
    LET r == consume(p, "SEMICOLON", "Expected ';' after break.")
    IN  andThen(r, LAMBDA got :
            Returned(got.p, BreakStmt))

\* Parser::continueStatement
continueStatement(p) ==
    LET r == consume(p, "SEMICOLON", "Expected ';' after continue.")
    IN  andThen(r, LAMBDA got :
            Returned(got.p, ContinueStmt))

\* Parser::forStatement: the clauses; forStatement above builds the loop
parseForStatement(p) ==
    LET open == consume(p, "LEFT_PAREN", "Expected '(' after 'for'.")
        initializer ==
            andThen(open, LAMBDA got :
                IF check(got.p, "SEMICOLON")
                THEN Returned(parserAdvance(got.p), Null)
                ELSE IF check(got.p, "LET")
                THEN parseVarDeclaration(parserAdvance(got.p))
                ELSE expressionStatement(got.p))
        condition ==
            andThen(initializer, LAMBDA got :
                IF ~check(got.p, "SEMICOLON") THEN expression(got.p)
                ELSE Returned(got.p, Null))
        semicolon ==
            andThen(condition, LAMBDA got :
                consume(got.p, "SEMICOLON", "Expected ';' after loop condition."))
        increment ==
            andThen(semicolon, LAMBDA got :
                IF ~check(got.p, "RIGHT_PAREN") THEN expression(got.p)
                ELSE Returned(got.p, Null))
        close ==
            andThen(increment, LAMBDA got :
                consume(got.p, "RIGHT_PAREN", "Expected ')' after for clauses."))
        body == andThen(close, LAMBDA got :
                    parserCall("parseStatement", got.p, 0))
    IN  andThen(body, LAMBDA got :
            Returned(got.p, forStatement(initializer.v, condition.v,
                                               increment.v, got.v)))

\* Parser::parseStatement
parseStatement(p) ==
    LET t == parserPeek(p).type
        p1 == parserAdvance(p)
    IN  CASE t = "IF" -> ifStatement(p1)
          [] t = "FOR" -> parseForStatement(p1)
          [] t = "WHILE" -> whileStatement(p1)
          [] t = "RETURN" -> returnStatement(p1)
          [] t = "BREAK" -> breakStatement(p1)
          [] t = "CONTINUE" -> continueStatement(p1)
          [] t = "LEFT_BRACE" ->
                LET r == parserCall("blockStatement", p1, 0)
                IN  andThen(r, LAMBDA got :
                        Returned(got.p, BlockStmt(got.v)))
          [] OTHER -> expressionStatement(p)

\* Parser::blockStatement
blockStatement(p0) ==
    LET RECURSIVE loop(_, _)
        loop(p, stmts) ==
            IF check(p, "RIGHT_BRACE") \/ parserIsAtEnd(p)
            THEN LET r == consume(p, "RIGHT_BRACE", "Expect '}' at end of block.")
                 IN  andThen(r, LAMBDA got :
                         Returned(got.p, stmts))
            ELSE LET r == parserCall("declareStatement", p, 0)
                     p1 == Logged(r.p, [e |-> "loop", loop |-> "block",
                                        before |-> p.current, after |-> r.p.current])
                 IN  andThen(r, LAMBDA got :
                         IF got.p.current = p.current
                         THEN Thrown([p1 EXCEPT !.diverged = TRUE])
                         ELSE loop(p1, Append(stmts, got.v)))
    IN  loop(p0, <<>>)

\* Parser::synchronize
synchronize(p0) ==
    LET RECURSIVE loop(_)
        loop(p) ==
            IF parserIsAtEnd(p) THEN p
            ELSE IF previous(p).type = "SEMICOLON" THEN p
            ELSE IF parserPeek(p).type \in
                        {"CLASS", "FUNC", "LET", "FOR", "IF", "WHILE", "RETURN"}
            THEN p
            ELSE loop(parserAdvance(p))
    IN  loop(parserAdvance(p0))

\* Parser::declareStatement returning from the catch without synchronize()
declareStatement_NoSynchronize(p) ==
    LET try(r) == IF r.ok \/ r.p.diverged THEN r
                  ELSE Returned(r.p, Null)
    IN  try(IF check(p, "CLASS") THEN parseClassDeclaration(parserAdvance(p))
            ELSE IF check(p, "FUNC")
            THEN parseFuncDeclaration(parserAdvance(p), "function")
            ELSE IF check(p, "LET") /\ check(parserAdvance(p), "IDENTIFIER")
            THEN parseVarDeclaration(parserAdvance(p))
            ELSE parserCall("parseStatement", parserMatch(p, {"LET"}), 0))

\* Parser::declareStatement; a loop that has stopped moving is not caught
declareStatement(p) ==
    LET try(r) == IF r.ok \/ r.p.diverged THEN r
                  ELSE Returned(synchronize(r.p), Null)
    IN  try(IF check(p, "CLASS") THEN parseClassDeclaration(parserAdvance(p))
            ELSE IF check(p, "FUNC")
            THEN parseFuncDeclaration(parserAdvance(p), "function")
            ELSE IF check(p, "LET") /\ check(parserAdvance(p), "IDENTIFIER")
            THEN parseVarDeclaration(parserAdvance(p))
            ELSE parserCall("parseStatement", parserMatch(p, {"LET"}), 0))

\* a call of one of the parser's member functions that call one another in a
\* cycle: the statement functions, the precedence chain (entered at the level
\* given) and the functions below unary
parserCall(function, p, level) ==
    CASE function = "declareStatement" -> declareStatement(p)
      [] function = "parseStatement" -> parseStatement(p)
      [] function = "blockStatement" -> blockStatement(p)
      [] function = "parseFrom" -> parseFrom(level, p)
      [] function = "call" -> call(p)
      [] function = "primary" -> primary(p)
      [] function = "lambda" -> lambda(p)

\* token sequences: every sequence of up to MaxTokens tokens of a few types,
\* assignments to every kind of target, binary operators where an expression
\* must start, and statements with and without errors in blocks, function
\* bodies and class bodies; each with its END_OF_FILE token
Types(types) == [i \in DOMAIN types |-> Token(types[i])]

ShortTypes ==
    {"IDENTIFIER", "EQUAL", "SEMICOLON", "LEFT_PAREN", "RIGHT_PAREN", "LEFT_BRACE",
     "RIGHT_BRACE", "STAR", "DOT", "LET", "CLASS", "FUNC"}

ShortInputs == UNION {[1..n -> ShortTypes] : n \in 0..MaxTokens}

Targets ==
    {<<"IDENTIFIER">>, <<"IDENTIFIER", "DOT", "IDENTIFIER">>,
     <<"IDENTIFIER", "LEFT_BRACKET", "NUMBER", "RIGHT_BRACKET">>,
     <<"THIS", "DOT", "IDENTIFIER", "LEFT_BRACKET", "NUMBER", "RIGHT_BRACKET">>,
     <<"NUMBER">>, <<"STRING">>, <<"THIS">>, <<"TRUE">>,
     <<"LEFT_PAREN", "IDENTIFIER", "RIGHT_PAREN">>,
     <<"IDENTIFIER", "LEFT_PAREN", "RIGHT_PAREN">>,
     <<"MINUS", "IDENTIFIER">>, <<"IDENTIFIER", "PLUS", "IDENTIFIER">>,
     <<"LEFT_BRACKET", "RIGHT_BRACKET">>,
     <<"SUPER", "DOT", "IDENTIFIER">>,
     <<"IDENTIFIER", "OR", "IDENTIFIER">>,
     <<"IDENTIFIER", "QUESTION_MARK", "IDENTIFIER", "COLON", "IDENTIFIER">>}

AssignInputs ==
    {before \o target \o <<"EQUAL">> \o value \o <<"SEMICOLON">> :
        before \in {<<>>, <<"LET", "IDENTIFIER", "EQUAL">>, <<"LEFT_BRACE">>},
        target \in Targets,
        value \in {<<"NUMBER">>} \cup {t \o <<"EQUAL", "NUMBER">> : t \in Targets}}

BinaryOperators ==
    {"PLUS", "STAR", "SLASH", "MODULO", "EQUAL_EQUAL", "BANG_EQUAL", "LESS",
     "LESS_EQUAL", "GREATER", "GREATER_EQUAL", "AND", "OR"}

LeadingInputs ==
    {before \o <<op>> \o operand \o <<"SEMICOLON">> :
        before \in {<<>>, <<"IDENTIFIER", "EQUAL">>, <<"RETURN">>,
                    <<"IDENTIFIER", "STAR">>, <<"LEFT_BRACE">>},
        op \in BinaryOperators \cup {"COMMA", "MINUS"},
        operand \in {<<"IDENTIFIER">>, <<"IDENTIFIER", "STAR", "NUMBER">>,
                     <<"IDENTIFIER", "LESS", "NUMBER">>, <<>>}}

Statements ==
    {<<"IDENTIFIER", "SEMICOLON">>, <<"RIGHT_PAREN", "SEMICOLON">>,
     <<"EQUAL", "IDENTIFIER", "SEMICOLON">>, <<"IDENTIFIER", "IDENTIFIER">>,
     <<"LET", "EQUAL">>, <<"RETURN", "SEMICOLON">>, <<"RIGHT_BRACE">>,
     <<"IDENTIFIER", "LEFT_BRACE", "RIGHT_BRACE">>,
     <<"IF", "LEFT_PAREN", "IDENTIFIER", "RIGHT_PAREN", "ELSE">>,
     <<"FOR", "LEFT_PAREN", "SEMICOLON", "SEMICOLON", "RIGHT_PAREN", "BREAK">>,
     <<"CLASS", "IDENTIFIER", "LESS", "IDENTIFIER", "LEFT_BRACE", "RIGHT_BRACE">>,
     <<"WHILE", "LEFT_PAREN", "RIGHT_PAREN">>,
     <<"IDENTIFIER", "LEFT_PAREN", "FUNC", "LEFT_PAREN", "RIGHT_PAREN",
       "LEFT_BRACE", "RIGHT_BRACE", "RIGHT_PAREN", "SEMICOLON">>}

Openings ==
    {<<>>, <<"LEFT_BRACE">>,
     <<"FUNC", "IDENTIFIER", "LEFT_PAREN", "RIGHT_PAREN", "LEFT_BRACE">>,
     <<"CLASS", "IDENTIFIER", "LEFT_BRACE">>,
     <<"CLASS", "IDENTIFIER", "LEFT_BRACE", "CLASS", "IDENTIFIER", "LEFT_BRACE">>}

RecoveryInputs ==
    {open \o s1 \o s2 \o close :
        open \in Openings, s1 \in Statements, s2 \in Statements,
        close \in {<<>>, <<"RIGHT_BRACE">>, <<"RIGHT_BRACE", "RIGHT_BRACE">>}}

TokenInputs ==
    {Types(types) \o <<Token("END_OF_FILE")>> :
        types \in ShortInputs \cup AssignInputs \cup LeadingInputs \cup RecoveryInputs}

InitParser ==
    /\ FlintIdle /\ BytecodeIdle /\ ScannerIdle /\ EvaluatorIdle
    /\ parser \in {NewParser(tokens) : tokens \in TokenInputs}
    /\ parseErrors = <<>>
    /\ parseLog = <<>>

\* Parser::parse, one turn of the while loop
ParseOne ==
    /\ ~parser.returned /\ ~parser.diverged /\ ~parserIsAtEnd(parser)
    /\ LET p == [tokens |-> parser.tokens, current |-> parser.current,
                 errors |-> parseErrors, log |-> parseLog, diverged |-> FALSE]
           push_back(r) ==
               /\ parser' = [parser EXCEPT
                      !.current = r.p.current,
                      !.statements = IF r.ok THEN Append(@, r.v) ELSE @,
                      !.diverged = ~r.ok \/ r.p.current = parser.current]
               /\ parseErrors' = r.p.errors
               /\ parseLog' = Append(r.p.log,
                                     [e |-> "loop", loop |-> "parse",
                                      before |-> parser.current,
                                      after |-> r.p.current])
       IN  push_back(parserCall("declareStatement", p, 0))
    /\ UNCHANGED <<flintVars, bytecodeVars, scannerVars, evaluatorVars>>

\* Parser::parse after the loop
ParseEnd ==
    /\ ~parser.returned /\ ~parser.diverged /\ parserIsAtEnd(parser)
    /\ parser' = [parser EXCEPT !.returned = TRUE]
    /\ UNCHANGED <<parseErrors, parseLog, flintVars, bytecodeVars, scannerVars,
                   evaluatorVars>>

NextParser == ParseOne \/ ParseEnd

SpecParser == InitParser /\ [][NextParser]_vars

(***************************************************************************)
(* The Evaluator on the operand of a unary '!': a literal, the sum of two  *)
(* string literals, or a character of a string literal.                    *)
(***************************************************************************)
Str(chars) == Val("std::string", chars)

\* Evaluator::operator()(const Binary&), case PLUS, of two values of which
\* at least one is a FlintString and the other a FlintString or a number
concatenate(left, right) ==
    IF left.t = "double" /\ right.t = "double"
    THEN Val("double", left.v + right.v)
    ELSE Val("FlintString", left.v \o right.v)

\* Evaluator::operator()(const GetIndex&) of a FlintString, index in range
charAt(array, index) == Val("std::string", <<array.v[index.v + 1]>>)

\* Evaluator::evaluate on the expressions of EvaluatorInputs
evaluate(expr) ==
    CASE expr.kind = "Literal" -> literalValue(expr.value)
      [] expr.kind = "Binary" ->
            concatenate(literalValue(expr.left.value), literalValue(expr.right.value))
      [] expr.kind = "GetIndex" ->
            charAt(literalValue(expr.array.value), literalValue(expr.index.value))

Characters == {"a", " ", "0"}
Strings == UNION {[1..n -> Characters] : n \in 0..MaxChars}

LiteralValues ==
    {Monostate, Nothing, Bool(TRUE), Bool(FALSE), Num(0), Num(1)}
        \cup {Str(chars) : chars \in Strings}

EvaluatorInputs ==
    {Literal(v) : v \in LiteralValues}
        \cup {Binary(Literal(Str(l)), "+", Literal(Str(r))) :
                 l \in Strings, r \in Strings}
        \cup {Binary(Literal(Num(l)), "+", Literal(Num(r))) : l \in {0, 1}, r \in {0, 1}}
        \cup {GetIndex(Literal(Str(chars)), Literal(Num(i)), "[") :
                 chars \in Strings \ {<<>>}, i \in {0}}

InitEvaluator ==
    /\ FlintIdle /\ BytecodeIdle /\ ScannerIdle /\ ParserIdle
    /\ evaluator \in {NewEvaluator(operand) : operand \in EvaluatorInputs}

\* Evaluator::operator()(const Unary&): right = evaluate(expr.right)
EvaluateRight ==
    /\ evaluator.pc = "evaluate"
    /\ evaluator' = [evaluator EXCEPT !.right = evaluate(evaluator.expr.right),
                                      !.pc = "operator"]
    /\ UNCHANGED <<flintVars, bytecodeVars, scannerVars, parserVars>>

\* Evaluator::operator()(const Unary&), case BANG: return !isTruthy(right)
UnaryBang ==
    /\ evaluator.pc = "operator"
    /\ evaluator' = [evaluator EXCEPT !.result = Bool(~isTruthy(evaluator.right)),
                                      !.pc = "returned"]
    /\ UNCHANGED <<flintVars, bytecodeVars, scannerVars, parserVars>>

NextEvaluator == EvaluateRight \/ UnaryBang

SpecEvaluator == InitEvaluator /\ [][NextEvaluator]_vars


(***************************************************************************)
(* Properties                                                              *)
(***************************************************************************)
Front(s) == SubSeq(s, 1, Len(s) - 1)
Last(s) == s[Len(s)]
\* the event was logged by the step that led to the current state
Just(ev) == ev.at + 1 = steps
IsPrefix(p, q) == Len(p) <= Len(q) /\ SubSeq(q, 1, Len(p)) = p

\* the name a Variable, Assignment or This expression looks up
LookupName(n) == IF n.kind = "This" THEN n.keyword ELSE n.name

\* the evaluator is about to look up the name of a resolved expression
AtLookup ==
    /\ pc = "interpret" /\ stack # <<>>
    /\ \/ Top.f \in {"Variable", "This"} /\ mode = "run"
       \/ Top.f = "Assignment" /\ mode = "ret"
    /\ Has(locals, Top.path)

\* C1: when a Variable, Assignment or This expression recorded in locals
\* with depth d is evaluated, d enclosing links from the current environment
\* reach an environment that binds the name.
C1_DepthReachesBinding ==
    AtLookup =>
        LET a == ancestors(envs, environment, locals[Top.path])
        IN  a # 0 /\ Has(envs[a].values, LookupName(Node(Top.path)))

LoopActive == \E k \in 1..Len(stack) : stack[k].f = "WhileStmt"

\* C2: a break or continue statement executed while no loop is being
\* executed raises a RuntimeError.
C2_BreakOutsideLoopRaisesRuntimeError ==
    [][(/\ pc = "interpret" /\ stack # <<>> /\ mode = "run"
        /\ Top.f \in {"BreakStmt", "ContinueStmt"}
        /\ ~LoopActive
        /\ stack' # stack)
       => signal'.kind = "RuntimeError"]_vars

\* C3: a Break or Continue signal never unwinds through a function-call
\* boundary and never leaves Interpreter::interpret uncaught.
C3_LoopSignalStaysInActivation ==
    /\ pc # "terminated"
    /\ (pc = "interpret" /\ mode = "throw" /\ signal.kind \in {"Break", "Continue"})
          => CallDepth(stack) = signal.depth

\* the environment the innermost running executeBlock installed; globals when
\* no block or call is running
Installed(stk) ==
    LET ks == {k \in 1..Len(stk) : stk[k].f = "executeBlock"}
    IN  IF ks = {} THEN globals
        ELSE stk[CHOOSE k \in ks : \A j \in ks : j <= k].vals[1]

\* C4: whenever a block or a call has finished, normally or by an exception,
\* the current environment is again the one of the block or call around it,
\* and globals at the top level.
C4_EnvironmentRestored ==
    pc = "interpret" => environment = Installed(stack)

\* an exception raised in a function called from inside blocks has unwound
\* them all and reached the top level
C4_Witness ==
    /\ TopIs("interpret") /\ mode = "throw"
    /\ \E k \in 1..Len(trace) : trace[k].e = "call"
    /\ \E k \in 1..Len(trace) : trace[k].e = "exec" /\ Len(trace[k].path) > 3

IsCallCatch(ev) ==
    ev.e = "catch" /\ Node(ev.path).kind \in {"FunctionStmt", "Lambda"}

\* C5: a return statement ends exactly the innermost active call; no
\* statement of the body executes after it; the call evaluates to the
\* returned value, nullptr when the return has none; the caller goes on.
C5_ReturnEndsInnermostCall ==
    /\ \A k \in 1..Len(trace) :
          trace[k].e = "Return" =>
              /\ trace[k].depth >= 1
              /\ LET val == Node(trace[k].path).val
                 IN  /\ val.kind = "Null" => trace[k].v = Nothing
                     /\ val.kind = "Literal" => trace[k].v = val.value
              /\ k < Len(trace) =>
                    /\ IsCallCatch(trace[k + 1])
                    /\ trace[k + 1].depth = trace[k].depth
                    /\ trace[k + 1].w = Num(trace[k].depth)
                    /\ IsPrefix(trace[k + 1].path, trace[k].path)
                    /\ trace[k + 1].v = trace[k].v
    /\ (trace # <<>> /\ IsCallCatch(Last(trace)) /\ Just(Last(trace)))
          => /\ pc = "interpret" /\ mode = "ret" /\ result = Last(trace).v
             /\ Top.f \in {"Call", "Get", "classCall"}
             /\ CallDepth(stack) = Last(trace).depth - 1

\* a return with a value, inside a loop of a function body, has been caught
C5_Witness ==
    \E k \in 1..(Len(trace) - 1) :
        /\ trace[k].e = "Return" /\ trace[k].v # Nothing
        /\ IsCallCatch(trace[k + 1])
        /\ \E n \in (Len(trace[k + 1].path) + 1)..Len(trace[k].path) :
              Node(SubSeq(trace[k].path, 1, n)).kind = "WhileStmt"

\* p is the body wrapper of a for loop with an increment clause:
\* while (c) { TryCatchContinue(body); increment; }
IsForBody(p) ==
    /\ Len(p) >= 2
    /\ Node(p).kind = "TryCatchContinueStmt"
    /\ p[Len(p)] = 1
    /\ Node(Front(p)).kind = "BlockStmt"
    /\ Len(Node(Front(p)).statements) = 2
    /\ Node(Front(p)).statements[2].kind = "ExpressionStmt"
    /\ Node(Front(Front(p))).kind = "WhileStmt"

Boundaries == {"WhileStmt", "TryCatchContinueStmt", "FunctionStmt", "Lambda"}
\* the innermost loop, for-body wrapper or function around the node at p
RECURSIVE Innermost(_)
Innermost(p) ==
    IF p = <<>> THEN <<>>
    ELSE IF Node(Front(p)).kind \in Boundaries THEN Front(p)
    ELSE Innermost(Front(p))

\* C6: a continue in the body of a for loop with an increment is followed by
\* the increment, once, and then by the re-evaluation of the loop condition.
C6_ContinueRunsIncrement ==
    \A k \in 1..Len(trace) :
        (trace[k].e = "Continue" /\ IsForBody(Innermost(trace[k].path))) =>
            LET body == Innermost(trace[k].path)
            IN  /\ k + 1 <= Len(trace) =>
                      trace[k + 1].e = "catch" /\ trace[k + 1].path = body
                /\ k + 2 <= Len(trace) =>
                      trace[k + 2].e = "exec" /\ trace[k + 2].path = Front(body) \o <<2>>
                /\ k + 3 <= Len(trace) =>
                      trace[k + 3].e = "cond" /\ trace[k + 3].path = Front(Front(body))

\* a continue in a for body, and the condition re-evaluated after it
C6_Witness ==
    \E k \in 1..(Len(trace) - 3) :
        /\ trace[k].e = "Continue" /\ IsForBody(Innermost(trace[k].path))
        /\ trace[k + 3].e = "cond"

\* C7: once the scanner, the parser or the resolver has reported a
\* diagnostic, no statement is executed.
C7_DiagnosticGatesExecution ==
    (\E k \in 1..Len(trace) : trace[k].e = "diag") =>
        /\ \A k \in 1..Len(trace) : trace[k].e # "exec"
        /\ pc # "interpret" /\ stack = <<>>

\* Flint::run has returned after a diagnostic of the resolver alone
C7_Witness ==
    /\ pc = "returned"
    /\ \E k \in 1..Len(trace) : trace[k].e = "diag" /\ trace[k].v = Num(3)
    /\ \A k \in 1..Len(trace) : trace[k].e = "diag" => trace[k].v = Num(3)

\* C8: a runtime error of a top-level statement is reported once, and every
\* later top-level statement is still executed, in source order.
C8_RuntimeErrorSkipsOneStatement ==
    \A k \in 1..Len(trace) :
        trace[k].e = "report" =>
            /\ \A j \in 1..Len(trace) :
                  (trace[j].e = "report" /\ trace[j].v = trace[k].v) => j = k
            /\ pc \in {"returned", "terminated", "crashed"} =>
                  \A n \in 1..Len(statements) :
                      Num(n) = trace[k].v \/ n < trace[k].v.v
                      \/ \E j \in (k + 1)..Len(trace) :
                            trace[j].e = "exec" /\ trace[j].path = <<n>>


\* the closure program's n-th operation: <<box, closure>>
IsClosureProgram ==
    /\ Len(statements) = 4 + MaxOps
    /\ statements[2].kind = "FunctionStmt" /\ statements[2].name = "make"
Op(n) ==
    LET e == statements[4 + n].expression.arguments[1].callee
    IN  <<e.object.name, e.name>>
\* what the n-th operation returns when every box has a counter of its own,
\* shared by the two closures of the box
Expected(n) == Cardinality({j \in 1..n : Op(j) = <<Op(n)[1], "inc">>})

\* C9: every call runs in a fresh environment enclosing the closure of the
\* function; closures of different calls of make() count separately, the two
\* closures of one call share the counter, and both work after make() returned.
C9_CallsGetFreshEnvironments ==
    /\ (trace # <<>> /\ Last(trace).e = "call" /\ Just(Last(trace))) =>
          LET fn == funcs[Last(trace).v.v]
          IN  /\ environment = Len(envs)
              /\ envs[environment].enclosing = fn.closure
              /\ \A f \in 1..Len(funcs) : funcs[f].closure # environment
              /\ \A e \in 1..Len(envs) : envs[e].enclosing # environment
              /\ \A k \in 1..(Len(stack) - 1) :
                    stack[k].f = "executeBlock" => stack[k].vals[1] # environment
    /\ IsClosureProgram =>
          \A k \in 1..Len(trace) :
              trace[k].e = "print" =>
                  trace[k].v = Num(Expected(trace[k].path[1] - 4))

\* inc of one box, inc of the other, then get of the first: all have printed
C9_Witness ==
    /\ IsClosureProgram /\ pc = "returned"
    /\ Op(1) = <<"b1", "inc">> /\ Op(2) = <<"b2", "inc">> /\ Op(3) = <<"b1", "get">>
    /\ \A n \in 1..MaxOps :
          \E k \in 1..Len(trace) : trace[k].e = "print" /\ trace[k].path = <<4 + n, 1>>

\* the classes from c up the superclass chain, nearest first
RECURSIVE ClassChain(_)
ClassChain(c) == IF c = 0 THEN <<>> ELSE <<c>> \o ClassChain(classes[c].superClass)
\* the nearest class of the chain of c that declares method name, 0 if none
Definer(c, name) ==
    LET ch == ClassChain(c)
        ks == {k \in 1..Len(ch) : Has(classes[ch[k]].instanceMethods, name)}
    IN  IF ks = {} THEN 0 ELSE ch[CHOOSE k \in ks : \A j \in ks : k <= j]

GetEvents == {"field", "method", "getter", "undefined"}

\* C10: a property read on an instance gives the field if there is one; else
\* the nearest method of the class chain, bound to the instance (a getter is
\* called at once and its result is the value read); else a RuntimeError.
C10_GetFieldThenMethod ==
    /\ (trace # <<>> /\ Last(trace).e \in GetEvents /\ Just(Last(trace))) =>
          LET ev == Last(trace)
              inst == instances[ev.w.v]
              name == Node(ev.path).name
              d == Definer(inst.klass, name)
          IN  IF Has(inst.fields, name)
              THEN /\ ev.e = "field" /\ ev.v = inst.fields[name]
                   /\ mode = "ret" /\ result = ev.v
              ELSE IF d # 0
              THEN LET m == funcs[classes[d].instanceMethods[name]]
                       b == funcs[ev.v.v]
                   IN  /\ ev.v.t = "function"
                       /\ b.declaration = m.declaration
                       /\ envs[b.closure].enclosing = m.closure
                       /\ Has(envs[b.closure].values, "this")
                       /\ envs[b.closure].values["this"] = ev.w
                       /\ IF Node(m.declaration).isGetter
                          THEN /\ ev.e = "getter" /\ mode = "run"
                               /\ Len(stack) > 2
                               /\ stack[Len(stack) - 1].f = "call"
                               /\ stack[Len(stack) - 1].aux = ev.v.v
                               /\ envs[environment].enclosing = b.closure
                          ELSE /\ ev.e = "method" /\ mode = "ret" /\ result = ev.v
              ELSE /\ ev.e = "undefined"
                   /\ mode = "throw" /\ signal.kind = "RuntimeError"
    /\ (/\ trace # <<>> /\ Last(trace).e \in {"return", "catch"} /\ Just(Last(trace))
        /\ TopIs("Get") /\ Top.i = 2)
          => mode = "ret" /\ result = Last(trace).v

\* a field has been read although a class of the chain declares a method of
\* the same name
C10_Witness ==
    /\ pc = "returned"
    /\ \E k \in 1..Len(trace) :
          /\ trace[k].e = "field"
          /\ Definer(instances[trace[k].w.v].klass, Node(trace[k].path).name) # 0


(***************************************************************************)
(* C11: in a method of a class declared with a superclass, super.m is the  *)
(* method m found from the direct superclass of the declaring class, bound *)
(* to the current instance, whatever the class of that instance: the       *)
(* program  class A { hi() { return 1; } }  class B < A { hi() { return    *)
(* super.hi() + 2; } }  class C < B {}  print(B().hi());  (or C().hi())    *)
(* has printed 3 when its run is over.                                     *)
(***************************************************************************)
C11_SuperCallsSuperclassMethod ==
    (pc = "returned" /\ statements \in SuperPrograms) =>
        \E k \in 1..Len(trace) : trace[k].e = "print" /\ trace[k].v = Num(3)


\* the declaration at path is an instance method named init
IsInitializer(path) ==
    /\ Len(path) >= 1
    /\ Node(Front(path)).kind = "ClassStmt"
    /\ Node(path).name = "init"
    /\ Last(path) > 1 + Len(Node(Front(path)).classMethods)

\* the event that began the call whose end is event k
CallOf(k) ==
    LET Begins(j) == /\ trace[j].e \in {"call", "getter"}
                     /\ trace[j].depth = trace[k].depth - 1
    IN  CHOOSE j \in 1..(k - 1) :
            Begins(j) /\ \A i \in (j + 1)..(k - 1) : ~Begins(i)

(***************************************************************************)
(* C12: a call of a class evaluates to an instance of that class which no  *)
(* earlier call produced; a call of an init method evaluates to the        *)
(* instance the method is bound to (the instance the class call made, or   *)
(* the instance the method was read from), whether its body ends normally  *)
(* or by a return.                                                         *)
(***************************************************************************)
C12_InitEvaluatesToInstance ==
    \A k \in 1..Len(trace) :
        /\ trace[k].e = "new" =>
              /\ trace[k].v.t = "instance"
              /\ trace[k].v.v \in 1..Len(instances)
              /\ trace[k].w.t = "class"
              /\ instances[trace[k].v.v].klass = trace[k].w.v
              /\ \A j \in 1..(k - 1) :
                    trace[j].e = "new" => trace[j].v # trace[k].v
              /\ Just(trace[k]) => mode = "ret" /\ result = trace[k].v
        /\ (trace[k].e \in {"return", "catch"} /\ IsInitializer(trace[k].path)) =>
              LET j == CallOf(k)
                  Reads == {m \in 1..(j - 1) :
                               trace[m].e = "method" /\ trace[m].v = trace[j].v}
              IN  /\ trace[k].v.t = "instance"
                  /\ trace[j].e = "getter" => trace[k].v = trace[j].w
                  /\ \A m \in Reads : trace[k].v = trace[m].w
                  /\ (trace[j].e = "call" /\ Reads = {} /\ k < Len(trace)) =>
                        trace[k + 1].e = "new" /\ trace[k + 1].v = trace[k].v
                  /\ Just(trace[k]) => mode = "ret" /\ result = trace[k].v

\* init, inherited from the superclass, has run through a class call and has
\* then been called on the instance directly
C12_Witness ==
    /\ pc = "returned"
    /\ \E k \in 1..Len(trace), n \in 1..Len(trace) :
          /\ trace[k].e = "return" /\ IsInitializer(trace[k].path)
          /\ trace[CallOf(k)].e = "call"
          /\ \E m \in 1..(CallOf(k) - 1) :
                /\ trace[m].e = "method" /\ trace[m].v = trace[CallOf(k)].v
                /\ trace[m].w = trace[n].v
          /\ trace[n].e = "new" /\ n > 1 /\ n < k
          /\ trace[n - 1].e = "return" /\ IsInitializer(trace[n - 1].path)
          /\ classes[trace[n].w.v].superClass # 0


\* the offsets of the bytes written so far
Offsets == 0..(Len(chunk.code) - 1)

(***************************************************************************)
(* C13: after any sequence of writes, getLine(o) is, for every written     *)
(* offset o, the line passed to the write that produced the byte at o: the *)
(* run-length-encoded table reads like a table of one line per byte.       *)
(***************************************************************************)
C13_GetLineIsLineWritten ==
    /\ Len(written) = Len(chunk.code)
    /\ \A o \in Offsets : getLine(chunk, o) = written[o + 1]

\* a line has come back after another one, and some entry stands for
\* several bytes
C13_Witness ==
    /\ Len(chunk.lines) < Len(chunk.code)
    /\ \E i, j, k \in 1..Len(chunk.lines) :
          /\ i < j /\ j < k
          /\ chunk.lines[i].line = chunk.lines[k].line
          /\ chunk.lines[i].line # chunk.lines[j].line

\* the writeConstant calls made so far
ConstantWrites == {k \in 1..Len(emitted) : emitted[k].call = "writeConstant"}

(***************************************************************************)
(* C14: writeConstant emits OP_CONSTANT and the index as one byte when the *)
(* index is below 256, and otherwise OP_CONSTANT_LONG and the three bytes  *)
(* of the index, low byte first, which the disassembler decodes to the     *)
(* index again.                                                            *)
(***************************************************************************)
C14_ConstantIndexEncoded ==
    \A k \in ConstantWrites :
        LET o == emitted[k].offset
            i == emitted[k].index
        IN  IF i < 256
            THEN /\ chunk.code[o + 1] = OpCode.OP_CONSTANT
                 /\ chunk.code[o + 2] = i
            ELSE /\ chunk.code[o + 1] = OpCode.OP_CONSTANT_LONG
                 /\ chunk.code[o + 2] = i % 256
                 /\ chunk.code[o + 3] = (i \div 256) % 256
                 /\ chunk.code[o + 4] = (i \div 65536) % 256
                 /\ longConstantInstruction(chunk, o) = i

\* what a binary opcode computes from its left and right operand
Apply(byte, l, r) ==
    CASE byte = ArithOpCode.OP_ADD -> plus(l, r)
      [] byte = ArithOpCode.OP_SUBTRACT -> minus(l, r)
      [] byte = ArithOpCode.OP_MULTIPLY -> multiplies(l, r)
      [] OTHER -> divides(l, r)

\* the value of the postfix expression calls[k..] spell, on the operands
\* stk: [ok, v]; ok is FALSE when the calls spell no expression ending in
\* Return
RECURSIVE Postfix(_, _, _)
Postfix(calls, k, stk) ==
    LET n == Len(stk)
        no == [ok |-> FALSE, v |-> Double(1, 0, 1)]
    IN  IF k > Len(calls) THEN no
        ELSE IF calls[k].call = "writeConstant"
        THEN Postfix(calls, k + 1, Append(stk, calls[k].val))
        ELSE IF calls[k].byte = OpCode.OP_RETURN
        THEN (IF n >= 1 /\ k = Len(calls) THEN [ok |-> TRUE, v |-> stk[n]] ELSE no)
        ELSE IF calls[k].byte = ArithOpCode.OP_NEGATE
        THEN (IF n >= 1
              THEN Postfix(calls, k + 1, [stk EXCEPT ![n] = negate(@)])
              ELSE no)
        ELSE IF calls[k].byte \in {ArithOpCode.OP_ADD, ArithOpCode.OP_SUBTRACT,
                                    ArithOpCode.OP_MULTIPLY, ArithOpCode.OP_DIVIDE}
        THEN (IF n >= 2
              THEN Postfix(calls, k + 1,
                       Append(SubSeq(stk, 1, n - 2),
                              Apply(calls[k].byte, stk[n - 1], stk[n])))
              ELSE no)
        ELSE no

(***************************************************************************)
(* C15: a chunk of Constant/ConstantLong, Add, Sub, Mul, Div and Negate    *)
(* instructions that ends in Return, once run, has printed the value of    *)
(* the postfix expression it spells (a binary opcode takes the value       *)
(* pushed last as its right operand), and run() has returned Ok.           *)
(***************************************************************************)
C15_RunComputesPostfix ==
    (vm.state = "done" /\ Postfix(emitted, 1, <<>>).ok) =>
        /\ ~vm.undefined
        /\ vm.result = "INTERPRET_OK"
        /\ vm.out = <<Postfix(emitted, 1, <<>>).v>>

\* the bytes that are opcodes
OpCodes ==
    {OpCode.OP_CONSTANT, OpCode.OP_CONSTANT_LONG, OpCode.OP_RETURN,
     ArithOpCode.OP_NEGATE, ArithOpCode.OP_ADD, ArithOpCode.OP_SUBTRACT,
     ArithOpCode.OP_MULTIPLY, ArithOpCode.OP_DIVIDE}

(***************************************************************************)
(* C16: when the decode loop has fetched a byte that is no opcode, run()   *)
(* has returned the RuntimeError result and has fetched nothing after it.  *)
(***************************************************************************)
C16_UnknownOpcodeIsRuntimeError ==
    \A k \in 1..Len(ran) :
        ran[k].instruction \notin OpCodes =>
            /\ k = Len(ran)
            /\ vm.state = "done"
            /\ vm.result = "INTERPRET_RUNTIME_ERROR"

(***************************************************************************)
(* C17: when Div has been executed with a zero on top of the stack as its  *)
(* right operand, run() has returned a runtime error: no quotient has been *)
(* pushed and nothing has been fetched after it.                           *)
(***************************************************************************)
C17_DivisionByZeroIsRuntimeError ==
    \A k \in 1..Len(ran) :
        (/\ ran[k].instruction = ArithOpCode.OP_DIVIDE
         /\ Len(ran[k].stack) >= 2
         /\ IsZero(ran[k].stack[Len(ran[k].stack)])) =>
            /\ k = Len(ran)
            /\ vm.state = "done"
            /\ vm.result = "INTERPRET_RUNTIME_ERROR"
            /\ Len(vm.stack) <= Len(ran[k].stack) - 2

(***************************************************************************)
(* C18, as stated: in every chunk built by writeChunk and writeConstant    *)
(* calls, getLine(o) >= getLine(o - 1) for every offset o >= 1.            *)
(***************************************************************************)
C18_GetLineNondecreasing ==
    \A o \in Offsets : o >= 1 => getLine(chunk, o) >= getLine(chunk, o - 1)

\* no write was passed a line below the line of the write before it
WrittenInOrder == \A k \in 2..Len(written) : written[k] >= written[k - 1]

(***************************************************************************)
(* C18, amended: in every chunk built by writeChunk and writeConstant      *)
(* calls whose lines never decrease from one call to the next,             *)
(* getLine(o) >= getLine(o - 1) for every offset o >= 1.                   *)
(***************************************************************************)
C18_GetLineNondecreasingInOrder ==
    WrittenInOrder => C18_GetLineNondecreasing

\* writeChunk and writeConstant calls with lines in order have written at
\* three different lines
C18_Witness ==
    /\ WrittenInOrder
    /\ Len(chunk.lines) >= 3
    /\ \E k \in ConstantWrites : emitted[k].index >= 256
    /\ \E k \in 1..Len(emitted) : emitted[k].call = "writeChunk"

(***************************************************************************)
(* Scanner: string literals and punctuators                                *)
(***************************************************************************)
\* how the string literal whose text starts at index i of src ends, by the
\* rules of the language: a backslash takes the next character with it, the
\* first quote that is not taken closes the literal
RECURSIVE LiteralEnd(_, _)
LiteralEnd(src, i) ==
    IF i > Len(src) THEN "end of source"
    ELSE IF src[i] = "\"" THEN "closed"
    ELSE IF src[i] = "\n" THEN "newline"
    ELSE IF src[i] = "\\" THEN LiteralEnd(src, i + 2)
    ELSE LiteralEnd(src, i + 1)

\* the scanToken calls that began a string literal
StringCalls == {k \in 1..Len(scanned) : scanned[k].c = "\""}

\* C19: whenever the source ends before the closing quote of a string literal
\* has been read, or a raw newline occurs inside the literal, the scanner
\* reports an error and emits no STRING token for the literal
C19_UnterminatedStringIsError ==
    \A k \in StringCalls :
        LiteralEnd(scanner.source, scanned[k].start + 2)
                \in {"end of source", "newline"}
            => /\ scanned[k].errors # <<>>
               /\ \A t \in 1..Len(scanned[k].tokens) :
                      scanned[k].tokens[t].type # "STRING"

\* the punctuators of the language and their token types
Punctuators ==
    [c \in {"(", ")", "{", "}", "[", "]", ",", ".", ";", ":", "?"} |->
        CASE c = "(" -> "LEFT_PAREN"   [] c = ")" -> "RIGHT_PAREN"
          [] c = "{" -> "LEFT_BRACE"   [] c = "}" -> "RIGHT_BRACE"
          [] c = "[" -> "LEFT_BRACKET" [] c = "]" -> "RIGHT_BRACKET"
          [] c = "," -> "COMMA"        [] c = "." -> "DOT"
          [] c = ";" -> "SEMICOLON"    [] c = ":" -> "COLON"
          [] OTHER -> "QUESTION_MARK"]

\* C20: each punctuator ( ) { } [ ] , . ; : ? that the scanner meets outside
\* strings and comments, that is at the start of a scanToken call, is scanned
\* into exactly one token, of its own type, and nothing is reported
C20_PunctuatorIsOneToken ==
    \A k \in 1..Len(scanned) :
        scanned[k].c \in DOMAIN Punctuators
            => /\ scanned[k].errors = <<>>
               /\ Len(scanned[k].tokens) = 1
               /\ scanned[k].tokens[1].type = Punctuators[scanned[k].c]
               /\ scanned[k].tokens[1].lexeme = <<scanned[k].c>>

\* the tokens end with their only END_OF_FILE token
EndOfFileLast(tokens) ==
    /\ tokens # <<>>
    /\ \A t \in 1..Len(tokens) : tokens[t].type = "END_OF_FILE" <=> t = Len(tokens)

\* C21: for every source text scanTokens terminates and returns: each turn of
\* its loop has moved current forward, which the length of the source bounds,
\* and no exception leaves it; the tokens it returns hold exactly one
\* END_OF_FILE token, the last one
C21_ScanTokensReturnsOneEndOfFile ==
    /\ \A k \in 1..Len(scanned) :
          scanned[k].start < scanned[k].current
              /\ scanned[k].current <= Len(scanner.source)
    /\ ~scanner.threw
    /\ scanner.returned => EndOfFileLast(scanner.tokens)

\* the characters scanToken does not accept
Unaccepted(c) ==
    /\ c \notin DOMAIN Punctuation \cup DOMAIN Comparison
    /\ c \notin {"/", "\"", " ", "\r", "\t", "\n"}
    /\ ~isDigit(c) /\ ~isAlpha(c)

\* C22: a diagnostic for a character the scanner does not accept ('&', '|',
\* '&&', '||' among them) names the line the scanner is at, and scanning goes
\* on with the character after it
C22_UnacceptedReportedAtLine ==
    \A k \in 1..Len(scanned) :
        Unaccepted(scanned[k].c)
            => /\ scanned[k].errors # <<>>
               /\ \A e \in 1..Len(scanned[k].errors) :
                      scanned[k].errors[e].line = scanned[k].line
               /\ scanned[k].current =
                      scanned[k].start +
                        (IF /\ scanned[k].c \in {"&", "|"}
                            /\ scanned[k].start + 2 <= Len(scanner.source)
                            /\ scanner.source[scanned[k].start + 2] = scanned[k].c
                         THEN 2 ELSE 1)

\* the assignments the parser has finished: the target expression left of an
\* '=', and the node made of it, Null when none was
AssignEvents == {k \in 1..Len(parseLog) : parseLog[k].e = "assign"}

\* C23: parsing `target = value` makes an Assignment only of a Variable, a Set
\* only of a Get and a SetIndex only of a GetIndex, each of that very target;
\* of any other target it makes no node and reports "Invalid assignment
\* target." at the '='.
C23_AssignmentNeedsLValue ==
    \A k \in AssignEvents :
        LET target == parseLog[k].target
            made == parseLog[k].made
        IN  /\ made.kind \in {"Assignment", "Set", "SetIndex", "Null"}
            /\ made.kind = "Assignment" =>
                    target.kind = "Variable" /\ made.name = target.name
            /\ made.kind = "Set" =>
                    /\ target.kind = "Get"
                    /\ made.object = target.object /\ made.name = target.name
            /\ made.kind = "SetIndex" =>
                    /\ target.kind = "GetIndex"
                    /\ made.array = target.array /\ made.index = target.index
            /\ target.kind \notin {"Variable", "Get", "GetIndex"} =>
                    /\ made = Null
                    /\ \E j \in 1..Len(parseErrors) :
                          parseErrors[j] = [at |-> parseLog[k].at,
                                            message |-> "Invalid assignment target."]

\* a parse has returned that made a SetIndex and an Assignment in one chain
\* of assignments
C23_Witness ==
    /\ parser.returned
    /\ \E k \in AssignEvents : parseLog[k].made.kind = "SetIndex"
    /\ \E k \in AssignEvents : parseLog[k].made.kind = "Assignment"

\* C24: a binary operator where an expression must start is never answered
\* with the plain "Expected an expression.": it gets the report of the missing
\* left-hand operand, at the operator, and the operand is parsed from the
\* token after it.
C24_LeadingOperatorIsDiagnosed ==
    /\ \A j \in 1..Len(parseErrors) :
          parseErrors[j].message = "Expected an expression." =>
              parser.tokens[parseErrors[j].at + 1].type \notin BinaryOperators
    /\ \A k \in 1..Len(parseLog) :
          parseLog[k].e = "operand" =>
              /\ parseLog[k].from = parseLog[k].op + 1
              /\ \E j \in 1..Len(parseErrors) :
                    parseErrors[j] =
                        [at |-> parseLog[k].op,
                         message |-> Text(<<"Missing left-hand operand before '",
                                            parser.tokens[parseLog[k].op + 1].lexeme,
                                            "'.">>)]

\* C25: the statement list that Parser::parse returns has no null entry.
C25_ParseReturnsNoNull ==
    parser.returned =>
        \A i \in 1..Len(parser.statements) : parser.statements[i] # Null

\* the iterations of the loops of Parser::parse, Parser::blockStatement and
\* Parser::parseClassDeclaration that have come round
LoopEvents == {k \in 1..Len(parseLog) : parseLog[k].e = "loop"}

\* C30: Parser::parse terminates: no loop comes round without having moved,
\* every iteration of the top-level, block and class-body loops ends further
\* on in the tokens than it began, at most at the END_OF_FILE token, and so
\* there are never more iterations than tokens.
C30_ParseTerminates ==
    /\ ~parser.diverged
    /\ parser.current < Len(parser.tokens)
    /\ Cardinality(LoopEvents) < Len(parser.tokens)
    /\ \A k \in LoopEvents :
          /\ parseLog[k].before < parseLog[k].after
          /\ parseLog[k].after < Len(parser.tokens)
    /\ (~parser.returned /\ parserIsAtEnd(parser)) =>
            parser.current = Len(parser.tokens) - 1

\* a parse has returned in which an iteration of the block loop and one of
\* the class-body loop came round and a declaration was recovered by
\* synchronize()
C30_Witness ==
    /\ parser.returned
    /\ \E k \in LoopEvents : parseLog[k].loop = "block"
    /\ \E k \in LoopEvents : parseLog[k].loop = "class"
    /\ \E i \in 1..Len(parser.statements) : parser.statements[i] = Null

(***************************************************************************)
(* The diagnostics of the Resolver, against the statements of the program. *)
(***************************************************************************)
RECURSIVE PathsBelow(_, _)
PathsBelow(n, path) ==
    {path} \cup UNION {PathsBelow(Kids(n)[k], path \o <<k>>) : k \in 1..Len(Kids(n))}

\* the paths of all nodes of the program
ProgramPaths == PathsBelow([kind |-> "Program", body |-> statements], <<>>)

\* the function that lexically holds the node at path below n: "none", or
\* "function" (lambdas too), "method", "initialiser" (a method named init)
RECURSIVE FunctionAt(_, _, _)
FunctionAt(n, path, fn) ==
    IF path = <<>> THEN fn
    ELSE LET kid == Kids(n)[Head(path)]
             inner == IF kid.kind # "FunctionStmt" THEN fn
                      ELSE IF n.kind # "ClassStmt" THEN "function"
                      ELSE IF kid.name = "init" THEN "initialiser"
                      ELSE "method"
         IN  FunctionAt(kid, Tail(path), inner)

\* the node at path below n is in the body of a loop of the function that
\* holds it
RECURSIVE InLoopAt(_, _, _)
InLoopAt(n, path, inLoop) ==
    IF path = <<>> THEN inLoop
    ELSE LET kid == Kids(n)[Head(path)]
             inner == IF kid.kind = "FunctionStmt" THEN FALSE
                      ELSE IF n.kind = "WhileStmt" /\ Head(path) = 2 THEN TRUE
                      ELSE inLoop
         IN  InLoopAt(kid, Tail(path), inner)

\* the node at path below n is in a local scope: in a block or in the body
\* of a function
RECURSIVE InScopeAt(_, _, _)
InScopeAt(n, path, local) ==
    IF path = <<>> THEN local
    ELSE InScopeAt(Kids(n)[Head(path)], Tail(path),
                   local \/ n.kind \in {"BlockStmt", "FunctionStmt"})

Root == [kind |-> "Program", body |-> statements]

\* Flint::run has just come back from resolver->resolve(statements): the
\* third step of a run, after scanTokens and parse
Resolved == steps = 3 /\ pc \in {"interpret", "returned"}

\* the Resolver has reported the node at path
Diagnosed(path) ==
    LET diags == Resolve(statements).diags
    IN  \E k \in 1..Len(diags) : diags[k].path = path

\* the return statements of the program
Returns == {path \in ProgramPaths : Node(path).kind = "ReturnStmt"}

\* C26: the Resolver reports a return statement exactly when it is outside
\* any function, or carries a value and is in an initialiser; a value-less
\* return in an initialiser is not reported.
C26_ReturnDiagnostics ==
    Resolved =>
        \A path \in Returns :
            Diagnosed(path) <=>
                \/ FunctionAt(Root, path, "none") = "none"
                \/ /\ FunctionAt(Root, path, "none") = "initialiser"
                   /\ Node(path).val # Null

\* the break and continue statements of the program that are not in a loop
\* body of their function
StrayLoopExits ==
    {path \in ProgramPaths :
        /\ Node(path).kind \in {"BreakStmt", "ContinueStmt"}
        /\ ~InLoopAt(Root, path, FALSE)}

\* C27: the Resolver reports every break and continue that is not lexically
\* in a loop body of the same function, and Flint::run then returns without
\* executing the program.
C27_StrayLoopExitDiagnosed ==
    Resolved =>
        \A path \in StrayLoopExits :
            Diagnosed(path) /\ hadError /\ pc = "returned"

\* the reads, in the k-th initialiser of the let statement at path and not
\* in the body of a function written there, of a name that the statement
\* declares and has not yet initialised: its own name or a later one
EarlyReads(path, k) ==
    LET decls == Node(path).declarations
    IN  {q \in PathsBelow(decls[k].initializer, path \o <<k>>) :
            /\ Node(q).kind = "Variable"
            /\ \E j \in k..Len(decls) : decls[j].name = Node(q).name
            /\ FunctionAt(Root, q, "none") = FunctionAt(Root, path, "none")}

\* the let statements of the program in a local scope
LocalLets ==
    {path \in ProgramPaths :
        Node(path).kind = "LetStmt" /\ InScopeAt(Root, path, FALSE)}

Falsy(v) ==
    \/ v \in {Monostate, Nothing, Bool(FALSE), Num(0)}
    \/ v.t \in {"std::string", "FlintString"} /\ v.v = <<>>

\* C29: isTruthy is false exactly of Nothing, Null, false, 0.0 and the empty
\* string, also of the strings that string literals and concatenation
\* evaluate to: `!operand` is true exactly of those values.
C29_TruthinessOfValues ==
    evaluator.pc = "returned" => evaluator.result = Bool(Falsy(evaluator.right))

====
